---- MODULE Spec2Model ----
(***************************************************************************)
(* Model of the splink parameter-estimation core:                          *)
(*   - analyse_blocking.py : blocking rule cost analyser                   *)
(*   - em_training_session.py : EM training session and fold-back          *)
(***************************************************************************)
EXTENDS Integers, Sequences, FiniteSets, TLC

VARIABLES
    linker,     \* the caller's linker: link type, input tables, settings
    call,       \* the cost-analyser call being made and its arguments
    ret,        \* what that call returned or raised
    settings,   \* the canonical model (linker._settings_obj): prior, comparisons
    train_args, \* the training options the caller passes to its sessions
    session,    \* the current EMTrainingSession object, if any
    outcome,    \* what the last session call did: result, queries sent, ...
    ntrain,     \* number of _train calls made so far
    params_obj, \* the Params object the caller works with
    param_dict, \* a parameter-history payload: exported, or read from a file
    loaded,     \* the Params object load_params_from_dict returned, if any
    comparison  \* the comparison the caller creates and configures

vars == <<linker, call, ret, settings, train_args, session, outcome, ntrain,
          params_obj, param_dict, loaded, comparison>>

analyser_vars == <<call, ret>>
training_vars == <<settings, train_args, session, outcome, ntrain>>
params_vars == <<params_obj, param_dict, loaded>>

-----------------------------------------------------------------------------
(* Bounds *)

MaxRows == 3
MaxRules == 3
MaxTrainCalls == 2

-----------------------------------------------------------------------------
(* Data: input tables with two nullable columns k1, k2 *)

Null == 0
K1Vals == {Null, 1, 2}
K2Vals == {Null, 1}

\* every pattern of missing values, and a second k1 value on full rows
RowVals == {row \in [k1 : K1Vals, k2 : K2Vals] : row.k1 = 2 => row.k2 # Null}

\* the rows of a table are taken in one order per bag of rows; a pair
\* (l, r) in both orientations occurs across the two tables of a link job
RowCode(row) == row.k1 * 2 + row.k2

TablesOfSize(n) ==
    {t \in [1..n -> RowVals] :
        \A i \in 1..(n - 1) : RowCode(t[i]) <= RowCode(t[i + 1])}

LinkTypes == {"dedupe_only", "link_only", "link_and_dedupe"}

\* vertically concatenated input: every row tagged with its source dataset
\* and its position (unique id) within it
RECURSIVE DfConcat(_, _)
DfConcat(tables, i) ==
    IF i > Len(tables) THEN <<>>
    ELSE [j \in 1..Len(tables[i]) |->
             [source_dataset |-> i, unique_id |-> j,
              k1 |-> tables[i][j].k1, k2 |-> tables[i][j].k2]]
         \o DfConcat(tables, i + 1)

compute_df_concat(lnk) == DfConcat(lnk.input_tables, 1)

-----------------------------------------------------------------------------
(* Blocking rules *)

RuleK1 == "l.k1 = r.k1"
RuleK1K2 == "l.k1 = r.k1 and l.k2 = r.k2"
RuleCrossFiltered == "l.k2 = r.k1 and l.k1 <> r.k1"
RuleTrue == "1=1"
RuleFalse == "1=0"

\* the rules the cost analyser is asked about
RuleCatalogue == {RuleK1, RuleK1K2, RuleCrossFiltered, RuleTrue}

\* BlockingRule._equi_join_conditions: the (l_key, r_key) pairs of the rule
equi_join_conditions(br) ==
    CASE br = RuleK1 -> << <<"k1", "k1">> >>
      [] br = RuleK1K2 -> << <<"k1", "k1">>, <<"k2", "k2">> >>
      [] br = RuleCrossFiltered -> << <<"k2", "k1">> >>
      [] OTHER -> <<>>

\* the part of the rule that is not an equi-join condition (SQL three-valued
\* logic: a comparison with NULL is not true)
FilterCondition(br, l, r) ==
    CASE br = RuleCrossFiltered ->
             l.k1 # Null /\ r.k1 # Null /\ l.k1 # r.k1
      [] br = RuleFalse -> FALSE
      [] OTHER -> TRUE

\* SQL equality on one key pair: NULL never equals anything
KeyPairAgrees(jc, l, r) ==
    l[jc[1]] # Null /\ r[jc[2]] # Null /\ l[jc[1]] = r[jc[2]]

EquiJoinAgrees(br, l, r) ==
    \A i \in DOMAIN equi_join_conditions(br) :
        KeyPairAgrees(equi_join_conditions(br)[i], l, r)

RuleSatisfied(br, l, r) == EquiJoinAgrees(br, l, r) /\ FilterCondition(br, l, r)

\* _sql_gen_where_condition: which (l, r) pairs of the concatenated table
\* are candidate pairs at all
sql_gen_where_condition(link_type, l, r) ==
    LET before == \/ l.source_dataset < r.source_dataset
                  \/ /\ l.source_dataset = r.source_dataset
                     /\ l.unique_id < r.unique_id
    IN  CASE link_type = "link_only" ->
                 before /\ l.source_dataset # r.source_dataset
          [] OTHER -> before

\* block_using_rules_sqls: every candidate pair carries the index of the
\* first rule it satisfies as match_key; pairs satisfying no rule are absent
block_using_rules(concat, brs, link_type) ==
    LET n == Len(concat)
        Sat(l, r) == {k \in 0..(Len(brs) - 1) : RuleSatisfied(brs[k + 1], l, r)}
        First(S) == CHOOSE k \in S : \A k2 \in S : k <= k2
        Candidates ==
            {q \in (1..n) \X (1..n) :
                sql_gen_where_condition(link_type, concat[q[1]], concat[q[2]])}
    IN  UNION { { [l |-> p[1], r |-> p[2], match_key |-> First(sat)] :
                    sat \in {Sat(concat[p[1]], concat[p[2]])} \ {{}} } :
                p \in Candidates }

-----------------------------------------------------------------------------
(* misc helpers *)

Comb2(n) == (n * (n - 1)) \div 2

RECURSIVE SeqSum(_)
SeqSum(s) == IF s = <<>> THEN 0 ELSE s[1] + SeqSum(Tail(s))

\* calculate_cartesian: full pairwise count from the per-dataset row counts
calculate_cartesian(row_counts, link_type) ==
    CASE link_type = "dedupe_only" -> Comb2(row_counts[1])
      [] link_type = "link_and_dedupe" -> Comb2(SeqSum(row_counts))
      [] OTHER ->
           Comb2(SeqSum(row_counts))
             - SeqSum([i \in DOMAIN row_counts |-> Comb2(row_counts[i])])

Micro == 1000000

\* round(x, 6) of the ratio num/den, in millionths, ties to even
RoundMicro(num, den) ==
    LET q == (num * Micro) \div den
        rem == (num * Micro) % den
    IN  IF 2 * rem > den THEN q + 1
        ELSE IF 2 * rem = den THEN q + (q % 2)
        ELSE q

\* round(calculate_reduction_ratio(N, cartesian), 6) = round(1 - N/cartesian, 6)
reduction_ratio(N, cartesian) == RoundMicro(cartesian - N, cartesian)

\* one operation of the program on a staged table of the database
Ev(op, table) == [op |-> op, table |-> table]

\* a query is materialised, its rows are read (as_record_dict or
\* as_pandas_dataframe), the table is dropped
CountedAndDropped(table) ==
    << Ev("create", table), Ev("read", table), Ev("drop", table) >>

\* list.insert(i, v) of Python: an index past the end appends
ListInsert(s, i, v) ==
    IF i >= Len(s) THEN Append(s, v)
    ELSE SubSeq(s, 1, i) \o <<v>> \o SubSeq(s, i + 1, Len(s))

-----------------------------------------------------------------------------
(* analyse_blocking.cumulative_comparisons_generated_by_blocking_rules *)

\* select count(*) from concat [group by source_dataset]
CartesianRowCounts(lnk) ==
    IF lnk.link_type = "dedupe_only"
    THEN << Len(compute_df_concat(lnk)) >>
    ELSE [i \in DOMAIN lnk.input_tables |-> Len(lnk.input_tables[i])]

\* select count(*) as row_count, match_key from blocked
\* group by match_key order by match_key: the keys that occur, ascending
GroupedMatchKeys(blocked, n) ==
    SelectSeq([i \in 1..n |-> i - 1],
              LAMBDA k : \E b \in blocked : b.match_key = k)

\* mutant: count(distinct l) instead of count(*)
GroupedRowCountsDistinctLeft(blocked, n) ==
    LET keys == GroupedMatchKeys(blocked, n)
    IN  [i \in DOMAIN keys |->
            Cardinality({b.l : b \in {x \in blocked : x.match_key = keys[i]}})]

GroupedRowCounts(blocked, n) ==
    LET keys == GroupedMatchKeys(blocked, n)
    IN  [i \in DOMAIN keys |->
            Cardinality({b \in blocked : b.match_key = keys[i]})]

\* mutant: the missing rules' zeros are appended at the end
RECURSIVE InsertMissingAtEnd(_, _)
InsertMissingAtEnd(br_count, missing_br) ==
    IF missing_br = <<>> THEN br_count
    ELSE InsertMissingAtEnd(Append(br_count, 0), Tail(missing_br))

\* for n in missing_br: br_count.insert(n, 0)
RECURSIVE InsertMissing(_, _)
InsertMissing(br_count, missing_br) ==
    IF missing_br = <<>> THEN br_count
    ELSE InsertMissing(ListInsert(br_count, Head(missing_br), 0),
                       Tail(missing_br))

\* mutant: no back-fill, rules without rows are dropped
BackFillSkipped(br_count, br_keys, n) == br_count

\* if len(br_count) != len(brs_as_objs): back-fill the rules without rows
BackFill(br_count, br_keys, n) ==
    IF Len(br_count) # n
    THEN LET missing_br ==
                 SelectSeq([i \in 1..n |-> i - 1],
                           LAMBDA x : \A j \in DOMAIN br_keys : br_keys[j] # x)
         IN  InsertMissing(br_count, missing_br)
    ELSE br_count

\* mutant: cumulative_sum = row
AccumulateOverwrites(cumulative_sum, row) == row

\* cumulative_sum += row
Accumulate(cumulative_sum, row) == cumulative_sum + row

\* for row, br in zip(br_count, brs_as_objs): ... br_comparisons.append(...)
RECURSIVE WrapOutput(_, _, _, _, _, _)
WrapOutput(br_count, brs, output_chart, cartesian, i, cumulative_sum) ==
    IF i > Len(br_count) \/ i > Len(brs) THEN <<>>
    ELSE LET row == br_count[i]
             cum == Accumulate(cumulative_sum, row)
             out_dict ==
                 IF output_chart
                 THEN [row_count |-> row,
                       rule |-> brs[i],
                       cumulative_rows |-> cum,
                       cartesian |-> cartesian,
                       reduction_ratio |-> reduction_ratio(cum, cartesian),
                       start |-> cum - row]
                 ELSE [row_count |-> row, rule |-> brs[i]]
         IN  <<out_dict>>
               \o WrapOutput(br_count, brs, output_chart, cartesian, i + 1,
                             IF output_chart THEN cum ELSE cumulative_sum)

\* the rules the call works on: the argument, or the settings' prediction
\* rules when the argument is empty
brs_as_objs(lnk, blocking_rules) ==
    IF blocking_rules # <<>> THEN blocking_rules
    ELSE lnk.blocking_rules_to_generate_predictions

cumulative_comparisons_generated_by_blocking_rules(lnk, blocking_rules, output_chart) ==
    LET brs == brs_as_objs(lnk, blocking_rules)
        cartesian == calculate_cartesian(CartesianRowCounts(lnk), lnk.link_type)
        \* the staged queries, each materialised once
        Records(blocked) ==
            LET br_keys == GroupedMatchKeys(blocked, Len(brs))
                br_count == BackFill(GroupedRowCounts(blocked, Len(brs)),
                                     br_keys, Len(brs))
            IN  CHOOSE out \in { WrapOutput(bc, brs, output_chart, cartesian, 1, 0) :
                                   bc \in {br_count} } : TRUE
        \* lines 98-101 (only for the chart) and 130-138
        tables ==
            (IF output_chart
             THEN CountedAndDropped("__splink__cartesian_product")
             ELSE <<>>)
              \o CountedAndDropped("__splink__df_count_cumulative_blocks")
    IN  CHOOSE res \in
            { [status |-> "ok", records |-> Records(blocked),
               tables |-> tables] :
                blocked \in { block_using_rules(concat, brs, lnk.link_type) :
                                concat \in {compute_df_concat(lnk)} } } : TRUE

\* cl._tf_adjustment_column = None
NoTfColumn == "None"

\* lines 70-76, "Turn tf off", on the linker the function works on
tf_turned_off(lnk) ==
    [lnk EXCEPT
       !.retain_matching_columns = FALSE,
       !.retain_intermediate_calculation_columns = FALSE,
       !.tf_adjustment_column =
           [i \in DOMAIN @ |-> [j \in DOMAIN @[i] |-> NoTfColumn]]]

\* mutant: the function works on the caller's linker itself
LinkerWithoutDeepcopy(lnk) == tf_turned_off(lnk)

\* linker = deepcopy(linker): the caller's linker after the call
LinkerAfterAnalysis(lnk) == lnk

-----------------------------------------------------------------------------
(* analyse_blocking.count_comparisons_from_blocking_rule_pre_filter_conditions *)

two_dataset_link_only(lnk) ==
    lnk.link_type = "link_only" /\ Len(lnk.input_tables) = 2

input_table_l(lnk) ==
    IF two_dataset_link_only(lnk) THEN lnk.input_tables[1]
    ELSE compute_df_concat(lnk)

input_table_r(lnk) ==
    IF two_dataset_link_only(lnk) THEN lnk.input_tables[2]
    ELSE compute_df_concat(lnk)

\* select <cols> as key_i, count(*) as cnt from table group by <cols>
\* (GROUP BY keeps NULL as a group of its own)
GroupByCount(table, cols) ==
    LET KeyOf(row) == [i \in DOMAIN cols |-> row[cols[i]]]
        keys == {KeyOf(table[i]) : i \in DOMAIN table}
    IN  { [key |-> kt,
           cnt |-> Cardinality({i \in DOMAIN table : KeyOf(table[i]) = kt})] :
          kt \in keys }

\* inner join ... using (key_0, key_1, ...): a NULL key matches nothing
UsingMatches(gl, gr) ==
    \A i \in DOMAIN gl.key : gl.key[i] # Null /\ gl.key[i] = gr.key[i]

\* select *, count_l * count_r as block_count from l inner join r using (...)
block_counts(lnk, join_conditions) ==
    LET l_cols_gb == [i \in DOMAIN join_conditions |-> join_conditions[i][1]]
        r_cols_gb == [i \in DOMAIN join_conditions |-> join_conditions[i][2]]
        count_l == GroupByCount(input_table_l(lnk), l_cols_gb)
        count_r == GroupByCount(input_table_r(lnk), r_cols_gb)
    IN  { [key |-> p[1].key, count_l |-> p[1].cnt, count_r |-> p[2].cnt,
           block_count |-> p[1].cnt * p[2].cnt] :
          p \in {q \in count_l \X count_r : UsingMatches(q[1], q[2])} }

RECURSIVE SumBlockCount(_)
SumBlockCount(rows) ==
    IF rows = {} THEN 0
    ELSE LET x == CHOOSE y \in rows : TRUE
         IN  x.block_count + SumBlockCount(rows \ {x})

\* select sum(block_count): SQL SUM over no rows is NULL, not 0
SqlSum(rows) ==
    IF rows = {} THEN [is_null |-> TRUE, v |-> 0]
    ELSE [is_null |-> FALSE, v |-> SumBlockCount(rows)]

\* the staged queries, by output table name
pre_filter_conditions_sqls(join_conditions) ==
    IF join_conditions = <<>>
    THEN << "__splink__total_of_block_counts" >>
    ELSE << "__splink__count_comparisons_from_blocking_l",
            "__splink__count_comparisons_from_blocking_r",
            "__splink__block_counts",
            "__splink__total_of_block_counts" >>

\* mutant: the concatenated table is used for every link type
pre_filter_total_concat_only(lnk, join_conditions) ==
    IF join_conditions = <<>>
    THEN [is_null |-> FALSE,
          v |-> Len(compute_df_concat(lnk)) * Len(compute_df_concat(lnk))]
    ELSE SqlSum(block_counts(lnk, join_conditions))

\* the value of the last staged query
pre_filter_total(lnk, join_conditions) ==
    IF join_conditions = <<>>
    THEN [is_null |-> FALSE,
          v |-> IF two_dataset_link_only(lnk)
                THEN Len(input_table_l(lnk)) * Len(input_table_r(lnk))
                ELSE Len(compute_df_concat(lnk)) * Len(compute_df_concat(lnk))]
    ELSE SqlSum(block_counts(lnk, join_conditions))

\* int(res["count_of_pairwise_comparisons_generated"]): int(None) raises
count_comparisons_from_blocking_rule_pre_filter_conditions(lnk, blocking_rule) ==
    LET join_conditions == equi_join_conditions(blocking_rule)
        res == pre_filter_total(lnk, join_conditions)
        sqls == pre_filter_conditions_sqls(join_conditions)
        \* lines 292-293: df_res is materialised and read; the function has
        \* no drop
        tables == << Ev("create", "__splink__total_of_block_counts"),
                     Ev("read", "__splink__total_of_block_counts") >>
    IN  IF res.is_null
        THEN [status |-> "raised", error |-> "int_of_null", stages |-> sqls,
              tables |-> tables]
        ELSE [status |-> "ok", value |-> res.v, stages |-> sqls,
              tables |-> tables]

-----------------------------------------------------------------------------
(* Model representation: comparisons, comparison levels, prior.            *)
(* Probabilities are held in hundredths (Scale = 1.0).                     *)

Scale == 100

\* LEVEL_NOT_OBSERVED_TEXT: the "not observed" sentinel held in place of a
\* numeric m or u value
LEVEL_NOT_OBSERVED == -1

NullLevel ==
    [comparison_vector_value |-> -1, is_null_level |-> TRUE,
     m_probability |-> Scale, u_probability |-> Scale,
     trained_m_probabilities |-> <<>>, trained_u_probabilities |-> <<>>]

Level(cvv, m, u) ==
    [comparison_vector_value |-> cvv, is_null_level |-> FALSE,
     m_probability |-> m, u_probability |-> u,
     trained_m_probabilities |-> <<>>, trained_u_probabilities |-> <<>>]

\* one comparison per data column: null level, exact match level, else level
ComparisonK1 ==
    [output_column_name |-> "k1", input_columns |-> {"k1"},
     comparison_levels |-> << NullLevel, Level(1, 90, 10), Level(0, 10, 90) >>]

ComparisonK2 ==
    [output_column_name |-> "k2", input_columns |-> {"k2"},
     comparison_levels |-> << NullLevel, Level(1, 80, 20), Level(0, 20, 80) >>]

InitialSettings ==
    [probability_two_random_records_match |-> 20,
     comparisons |-> << ComparisonK1, ComparisonK2 >>]

comparison_levels_excluding_null(cc) ==
    SelectSeq(cc.comparison_levels, LAMBDA cl : ~cl.is_null_level)

\* round(scale * num / den), ties to even
RoundRatio(num, den, scale) ==
    LET q == (num * scale) \div den
        rem == (num * scale) % den
    IN  IF 2 * rem > den THEN q + 1
        ELSE IF 2 * rem = den THEN q + (q % 2)
        ELSE q

-----------------------------------------------------------------------------
(* em_training_session.EMTrainingSession.__init__ *)

\* get_columns_used_from_sql(blocking_rule_sql)
get_columns_used_from_sql(br) ==
    CASE br = RuleK1 -> {"k1"}
      [] br = RuleK1K2 -> {"k1", "k2"}
      [] br = RuleCrossFiltered -> {"k1", "k2"}
      [] OTHER -> {}

\* Settings._get_comparison_levels_corresponding_to_training_blocking_rule:
\* the exact match levels that the rule's equalities l.c = r.c make certain
comparison_levels_corresponding_to_training_blocking_rule(br, comparisons) ==
    LET implied == CASE br = RuleK1 -> {"k1"}
                     [] br = RuleK1K2 -> {"k1", "k2"}
                     [] OTHER -> {}
        hit == SelectSeq(comparisons,
                         LAMBDA cc : cc.output_column_name \in implied)
    IN  [i \in DOMAIN hit |->
            [level |-> CHOOSE cl \in {hit[i].comparison_levels[j] :
                                        j \in DOMAIN hit[i].comparison_levels} :
                           cl.comparison_vector_value = 1,
             comparison |-> hit[i].output_column_name]]

\* mutant: the loop over the levels stops after the first level
MultiplyFirstBayesFactorOnly(bf, comp_level_infos) ==
    IF comp_level_infos = <<>> THEN bf
    ELSE LET cl == Head(comp_level_infos).level
         IN  << cl.m_probability * bf[1], cl.u_probability * bf[2] >>

\* adj_bayes_factor = cl._bayes_factor * adj_bayes_factor, over the levels;
\* a Bayes factor m/u is kept as the fraction <<m, u>>
RECURSIVE MultiplyBayesFactors(_, _)
MultiplyBayesFactors(bf, comp_level_infos) ==
    IF comp_level_infos = <<>> THEN bf
    ELSE LET cl == Head(comp_level_infos).level
         IN  MultiplyBayesFactors(
                 << cl.m_probability * bf[1], cl.u_probability * bf[2] >>,
                 Tail(comp_level_infos))

\* prob_to_bayes_factor(p) = p / (1 - p)
prob_to_bayes_factor(p) == << p, Scale - p >>

\* bayes_factor_to_prob(bf) = bf / (1 + bf)
bayes_factor_to_prob(bf) == RoundRatio(bf[1], bf[1] + bf[2], Scale)

blocking_adjusted_probability_two_random_records_match(original_settings_obj, comp_level_infos) ==
    LET orig_prop_m == original_settings_obj.probability_two_random_records_match
    IN  bayes_factor_to_prob(
            MultiplyBayesFactors(prob_to_bayes_factor(orig_prop_m),
                                 comp_level_infos))

NoSession == [exists |-> FALSE]

\* comparisons_to_deactivate argument: None, or a list of comparisons
NoneGiven == [given |-> FALSE, names |-> <<>>]

SeqToSet(s) == {s[i] : i \in DOMAIN s}

\* if not comparisons_to_deactivate: the comparisons that use a column of
\* the blocking rule; else the caller's list
ComparisonsToDeactivate(comparisons_to_deactivate, br, comparisons) ==
    IF ~comparisons_to_deactivate.given \/ comparisons_to_deactivate.names = <<>>
    THEN LET used == SelectSeq(comparisons,
                       LAMBDA cc : get_columns_used_from_sql(br)
                                     \cap cc.input_columns # {})
         IN  [i \in DOMAIN used |-> used[i].output_column_name]
    ELSE comparisons_to_deactivate.names

EMTrainingSessionInit(original_settings_obj, br, fix_u, fix_m, fix_lambda, comparisons_to_deactivate) ==
    LET settings_obj == original_settings_obj    \* deepcopy
        comp_level_infos ==
            comparison_levels_corresponding_to_training_blocking_rule(
                br, settings_obj.comparisons)
        adjusted ==
            blocking_adjusted_probability_two_random_records_match(
                original_settings_obj, comp_level_infos)
        cc_names_to_deactivate ==
            ComparisonsToDeactivate(comparisons_to_deactivate, br,
                                    settings_obj.comparisons)
        filtered_ccs ==
            SelectSeq(settings_obj.comparisons,
                      LAMBDA cc : cc.output_column_name
                                     \notin SeqToSet(cc_names_to_deactivate))
    IN  [exists |-> TRUE,
         blocking_rule_for_training |-> br,
         comparison_levels_to_reverse_blocking_rule |-> comp_level_infos,
         training_fix_u_probabilities |-> fix_u,
         training_fix_m_probabilities |-> fix_m,
         training_fix_probability_two_random_records_match |-> fix_lambda,
         comparisons_that_cannot_be_estimated |-> cc_names_to_deactivate,
         comparisons_that_can_be_estimated |->
             [i \in DOMAIN filtered_ccs |-> filtered_ccs[i].output_column_name],
         core_model_settings |->
             [probability_two_random_records_match |-> adjusted,
              comparisons |-> filtered_ccs],
         core_model_settings_history |-> <<>>]

-----------------------------------------------------------------------------
(* The comparison vectors of a session and the EM engine                   *)
(* (expectation_maximisation): E-step, M-step, convergence, history.       *)

MaxIterations == 3
EmConvergence == 1
PScale == 1000

\* gamma of one comparison for a pair: -1 null, 1 exact match, 0 else
Gamma(col, l, r) ==
    IF l[col] = Null \/ r[col] = Null THEN -1
    ELSE IF l[col] = r[col] THEN 1 ELSE 0

\* block on the training rule, then compute_comparison_vector_values over
\* the comparisons kept for estimation
ComparisonVectors(lnk, br, names) ==
    LET concat == compute_df_concat(lnk)
        blocked == block_using_rules(concat, <<br>>, lnk.link_type)
    IN  { [l |-> b.l, r |-> b.r,
           gamma |-> [c \in names |-> Gamma(c, concat[b.l], concat[b.r])]] :
          b \in blocked }

LevelWithValue(cc, value) ==
    CHOOSE cl \in SeqToSet(cc.comparison_levels) :
        cl.comparison_vector_value = value

\* a level contributes a neutral Bayes factor when it is the null level or
\* when m or u is "not observed"
NeutralLevel(cl) ==
    \/ cl.is_null_level
    \/ cl.m_probability = LEVEL_NOT_OBSERVED
    \/ cl.u_probability = LEVEL_NOT_OBSERVED

RECURSIVE LevelProduct(_, _, _, _)
LevelProduct(ccs, gamma, i, side) ==
    IF i > Len(ccs) THEN 1
    ELSE LET cl == LevelWithValue(ccs[i], gamma[ccs[i].output_column_name])
             factor == IF NeutralLevel(cl) THEN 1
                       ELSE IF side = "m" THEN cl.m_probability
                       ELSE cl.u_probability
         IN  factor * LevelProduct(ccs, gamma, i + 1, side)

\* E-step: posterior match probability of a comparison vector, in 1/PScale
MatchProbability(cms, gamma) ==
    LET lam == cms.probability_two_random_records_match
        a == lam * LevelProduct(cms.comparisons, gamma, 1, "m")
        b == (Scale - lam) * LevelProduct(cms.comparisons, gamma, 1, "u")
    IN  IF a + b = 0 THEN 0 ELSE RoundRatio(a, a + b, PScale)

\* E-step over the table: every pair with its match probability
ExpectationStep(cvv, cms) ==
    { [l |-> p.l, r |-> p.r, gamma |-> p.gamma,
       match_probability |-> MatchProbability(cms, p.gamma)] : p \in cvv }

\* match mass (side m) or non-match mass (side u) of a set of scored pairs
RECURSIVE Mass(_, _)
Mass(pairs, side) ==
    IF pairs = {} THEN 0
    ELSE LET p == CHOOSE x \in pairs : TRUE
         IN  (IF side = "m" THEN p.match_probability
              ELSE PScale - p.match_probability)
               + Mass(pairs \ {p}, side)

\* M-step for one level: its share of the mass of its comparison; a level
\* that no pair shows gets the "not observed" sentinel
NewProbability(scored, cc, cl, side) ==
    LET name == cc.output_column_name
        observed == {p \in scored : p.gamma[name] = cl.comparison_vector_value}
        total == {p \in scored : p.gamma[name] # -1}
    IN  IF observed = {} THEN LEVEL_NOT_OBSERVED
        ELSE CHOOSE v \in
               { IF den = 0 THEN 0
                 ELSE RoundRatio(Mass(observed, side), den, Scale) :
                 den \in {Mass(total, side)} } : TRUE

\* one EM iteration: the next snapshot; fixed parameters are carried over
MaximisationStep(cvv, cms, fix_m, fix_u, fix_lambda) ==
    CHOOSE next \in
      { [probability_two_random_records_match |->
           IF fix_lambda THEN cms.probability_two_random_records_match
           ELSE RoundRatio(Mass(scored, "m"), Cardinality(scored) * PScale, Scale),
         comparisons |->
           [i \in DOMAIN cms.comparisons |->
              LET cc == cms.comparisons[i]
              IN  [cc EXCEPT !.comparison_levels =
                     [j \in DOMAIN cc.comparison_levels |->
                        LET cl == cc.comparison_levels[j]
                        IN  IF cl.is_null_level THEN cl
                            ELSE [cl EXCEPT
                                    !.m_probability =
                                        IF fix_m THEN @
                                        ELSE NewProbability(scored, cc, cl, "m"),
                                    !.u_probability =
                                        IF fix_u THEN @
                                        ELSE NewProbability(scored, cc, cl, "u")]]]]] :
        scored \in {ExpectationStep(cvv, cms)} } : TRUE

Abs(x) == IF x < 0 THEN -x ELSE x

\* largest change of a non-fixed numeric parameter is below the threshold
Converged(prev, new) ==
    /\ Abs(new.probability_two_random_records_match
             - prev.probability_two_random_records_match) < EmConvergence
    /\ \A i \in DOMAIN new.comparisons :
         \A j \in DOMAIN new.comparisons[i].comparison_levels :
            LET a == prev.comparisons[i].comparison_levels[j]
                b == new.comparisons[i].comparison_levels[j]
                Close(x, y) == \/ x = LEVEL_NOT_OBSERVED
                               \/ y = LEVEL_NOT_OBSERVED
                               \/ Abs(x - y) < EmConvergence
            IN  /\ Close(a.m_probability, b.m_probability)
                /\ Close(a.u_probability, b.u_probability)

RECURSIVE EMLoop(_, _, _, _, _, _)
EMLoop(cvv, history, i, fix_m, fix_u, fix_lambda) ==
    IF i > MaxIterations THEN history
    ELSE CHOOSE h \in
           { IF Converged(cur, new) THEN Append(history, new)
             ELSE EMLoop(cvv, Append(history, new), i + 1,
                         fix_m, fix_u, fix_lambda) :
             cur \in {history[Len(history)]},
             new \in {MaximisationStep(cvv, history[Len(history)],
                                       fix_m, fix_u, fix_lambda)} } : TRUE

\* the ordered history of snapshots, the initial one included
expectation_maximisation(cvv, core_model_settings, fix_m, fix_u, fix_lambda) ==
    EMLoop(cvv, <<core_model_settings>>, 1, fix_m, fix_u, fix_lambda)

-----------------------------------------------------------------------------
(* em_training_session.EMTrainingSession._train *)

\* mutant: the message does not carry the rule
NoPairsMessageWithoutRule(br) ==
    << "Training rule resulted in no record pairs." >>

\* the EMTrainingException text, as its fragments: literal text and the
\* interpolated blocking rule sql (which the code puts between backquotes)
NoPairsMessage(br) ==
    << "Training rule ", br, " resulted in no record pairs.  ",
       "This means that in the supplied data set there were no pairs of records for which ",
       br, " was true.",
       "You must revise your training blocking rule so that the set of generated comparisons is not empty.  ",
       "You can use linker.count_num_comparisons_from_blocking_rule() to compute the number of comparisons that will be generated by a blocking rule." >>

\* training_desc = f"EM, blocked on: {rule}"
TrainingDesc(br) == "EM, blocked on: " \o br

\* mutant: the first snapshot of the history is folded back
FirstSnapshot(history) == history[1]

\* core_model_settings_history[-1]
FinalSnapshot(history) == history[Len(history)]

\* mutant: no sentinel branch, a level that was not observed is recorded
\* with the numeric value 0
AddTrainedZeroForNotObserved(orig_cl, cl, fix_m, fix_u, training_desc) ==
    LET Numeric(x) == IF x = LEVEL_NOT_OBSERVED THEN 0 ELSE x
    IN  [orig_cl EXCEPT
           !.trained_m_probabilities =
               IF fix_m THEN @
               ELSE Append(@, [probability |-> Numeric(cl.m_probability),
                               description |-> training_desc]),
           !.trained_u_probabilities =
               IF fix_u THEN @
               ELSE Append(@, [probability |-> Numeric(cl.u_probability),
                               description |-> training_desc])]

\* mutant: the fold-back does not test the fix flags, both sides are
\* written
AddTrainedAlsoWhenFixed(orig_cl, cl, fix_m, fix_u, training_desc) ==
    [orig_cl EXCEPT
       !.trained_m_probabilities =
           Append(@, [probability |-> cl.m_probability,
                      description |-> training_desc]),
       !.trained_u_probabilities =
           Append(@, [probability |-> cl.u_probability,
                      description |-> training_desc])]

\* _add_trained_m_probability / _add_trained_u_probability on the level of
\* the canonical comparison with the same comparison vector value; a
\* "not observed" value is recorded as the sentinel
AddTrained(orig_cl, cl, fix_m, fix_u, training_desc) ==
    [orig_cl EXCEPT
       !.trained_m_probabilities =
           IF fix_m THEN @
           ELSE IF cl.m_probability = LEVEL_NOT_OBSERVED
           THEN Append(@, [probability |-> LEVEL_NOT_OBSERVED,
                           description |-> training_desc])
           ELSE Append(@, [probability |-> cl.m_probability,
                           description |-> training_desc]),
       !.trained_u_probabilities =
           IF fix_u THEN @
           ELSE IF cl.u_probability = LEVEL_NOT_OBSERVED
           THEN Append(@, [probability |-> LEVEL_NOT_OBSERVED,
                           description |-> training_desc])
           ELSE Append(@, [probability |-> cl.u_probability,
                           description |-> training_desc])]

\* mutant: the loop runs over the comparisons and levels of the canonical
\* model, every level receives its own current values
FoldBackIntoEveryLevel(original_settings_obj, cms, fix_m, fix_u, training_desc) ==
    [original_settings_obj EXCEPT !.comparisons =
       [i \in DOMAIN @ |->
          [@[i] EXCEPT !.comparison_levels =
             [j \in DOMAIN @ |->
                AddTrained(@[j], @[j], fix_m, fix_u, training_desc)]]]]

\* "Add m and u values to original settings": for each comparison of the
\* session, each non-null level, look the canonical level up by output
\* column name and comparison vector value
FoldBack(original_settings_obj, cms, fix_m, fix_u, training_desc) ==
    [original_settings_obj EXCEPT !.comparisons =
       [i \in DOMAIN @ |->
          LET orig_cc == @[i]
              trained == SelectSeq(cms.comparisons,
                            LAMBDA cc : cc.output_column_name
                                          = orig_cc.output_column_name)
          IN  IF trained = <<>> THEN orig_cc
              ELSE [orig_cc EXCEPT !.comparison_levels =
                      [j \in DOMAIN @ |->
                         LET orig_cl == @[j]
                             cls == SelectSeq(
                                      comparison_levels_excluding_null(trained[1]),
                                      LAMBDA cl : cl.comparison_vector_value
                                            = orig_cl.comparison_vector_value)
                         IN  IF cls = <<>> THEN orig_cl
                             ELSE AddTrained(orig_cl, cls[1], fix_m, fix_u,
                                             training_desc)]]]]

\* mutant: every record carries the prior of the session's current model
\* (as _iteration_history_records does)
lambda_history_records_of_current(sess) ==
    LET history == sess.core_model_settings_history
        lam == sess.core_model_settings.probability_two_random_records_match
    IN  IF \E i \in DOMAIN history :
              history[i].probability_two_random_records_match = 0
        THEN [status |-> "raised", error |-> "ZeroDivisionError"]
        ELSE [status |-> "ok",
              records |->
                 [i \in DOMAIN history |->
                    [probability_two_random_records_match |-> lam,
                     probability_two_random_records_match_reciprocal |->
                         << Scale, lam >>,
                     iteration |-> i - 1]]]

\* EMTrainingSession._lambda_history_records: for i, s in enumerate(history);
\* the reciprocal 1 / lam is kept as a fraction, and a prior of 0 raises
lambda_history_records(sess) ==
    LET history == sess.core_model_settings_history
    IN  IF \E i \in DOMAIN history :
              history[i].probability_two_random_records_match = 0
        THEN [status |-> "raised", error |-> "ZeroDivisionError"]
        ELSE [status |-> "ok",
              records |->
                 [i \in DOMAIN history |->
                    LET lam == history[i].probability_two_random_records_match
                    IN  [probability_two_random_records_match |-> lam,
                         probability_two_random_records_match_reciprocal |->
                             << Scale, lam >>,
                         iteration |-> i - 1]]]

\* mutant: __init__ assigns the adjusted prior to the canonical settings
\* object as well
OriginalWithAdjustedPrior(original_settings_obj, new_session) ==
    [original_settings_obj EXCEPT
       !.probability_two_random_records_match =
           new_session.core_model_settings.probability_two_random_records_match]

\* mutant: no deepcopy, __init__ filters the comparisons and sets the
\* adjusted prior on the canonical settings object itself
OriginalSharedWithSession(original_settings_obj, new_session) ==
    new_session.core_model_settings

\* deepcopy(linker._settings_obj): what __init__ does to its copy leaves
\* the canonical settings object as it was
OriginalAfterInit(original_settings_obj, new_session) == original_settings_obj

NoTrainArgs ==
    [fix_u |-> FALSE, fix_m |-> FALSE, fix_lambda |-> FALSE,
     comparisons_to_deactivate |-> NoneGiven]

NoOutcome == [op |-> "none"]

Outcome(op, cvv_arg, status, error, message, queries, em_invoked) ==
    [op |-> op, cvv_arg |-> cvv_arg, status |-> status, error |-> error,
     message |-> message, queries |-> queries, em_invoked |-> em_invoked,
     settings_before |-> settings, session_before |-> session]

\* the queries _comparison_vectors sends: df_concat_with_tf on the original
\* linker, then the blocked pairs and their comparison vectors
ComparisonVectorQueries ==
    << "__splink__df_concat_with_tf", "__splink__df_comparison_vectors" >>

\* the comparison vector table of a _train call: materialised by
\* _comparison_vectors when the caller passes no cvv, read by the check for
\* record pairs and, if there are pairs, by EM; _train has no drop
SessionTables(out) ==
    IF out.queries = <<>> THEN <<>>
    ELSE (IF out.cvv_arg = "none"
          THEN << Ev("create", "__splink__df_comparison_vectors") >>
          ELSE <<>>)
           \o << Ev("read", "__splink__df_comparison_vectors") >>
           \o (IF out.em_invoked
               THEN << Ev("read", "__splink__df_comparison_vectors") >>
               ELSE <<>>)

-----------------------------------------------------------------------------
(* params.Params: current parameters, their history, export and load.      *)
(* Probabilities are held in hundredths.                                   *)

\* a probability that reset_all_probabilities has cleared (None)
NoneProbability == -1

\* _get_default_value("proportion_of_matches")
DefaultProportionOfMatches == 30

\* the settings dictionaries a caller constructs Params with: one comparison
\* column of two levels, the proportion of matches given or left out
SettingsDicts ==
    { [col_name |-> "k1", num_levels |-> 2],
      [col_name |-> "k1", num_levels |-> 2, proportion_of_matches |-> 20] }

\* complete_settings_dict(settings, spark): the keys left out get defaults
complete_settings_dict(settings_dict) ==
    [col_name |-> settings_dict.col_name,
     num_levels |-> settings_dict.num_levels,
     proportion_of_matches |->
         IF "proportion_of_matches" \in DOMAIN settings_dict
         THEN settings_dict.proportion_of_matches
         ELSE DefaultProportionOfMatches,
     m_probabilities |->
         IF "m_probabilities" \in DOMAIN settings_dict
         THEN settings_dict.m_probabilities ELSE << 10, 90 >>,
     u_probabilities |->
         IF "u_probabilities" \in DOMAIN settings_dict
         THEN settings_dict.u_probabilities ELSE << 90, 10 >>]

NoParams == [exists |-> FALSE]

\* Params.__init__(settings, spark)
ParamsInit(settings_dict) ==
    [exists |-> TRUE,
     param_history |-> <<>>,
     iteration |-> 0,
     settings_original |-> settings_dict,
     settings |-> complete_settings_dict(settings_dict),
     params |-> complete_settings_dict(settings_dict),
     log_likelihood_exists |-> FALSE]

\* Settings.reset_all_probabilities
reset_all_probabilities(params) ==
    [params EXCEPT
       !.m_probabilities = [i \in DOMAIN @ |-> NoneProbability],
       !.u_probabilities = [i \in DOMAIN @ |-> NoneProbability]]

\* for row_dict in pi_df_collected: set_m_probability, set_u_probability
RECURSIVE SetProbabilities(_, _)
SetProbabilities(params, pi_df_collected) ==
    IF pi_df_collected = <<>> THEN params
    ELSE LET row_dict == Head(pi_df_collected)
             level == row_dict.gamma_value + 1
         IN  SetProbabilities(
                 [params EXCEPT
                    !.m_probabilities[level] = row_dict.new_probability_match,
                    !.u_probabilities[level] = row_dict.new_probability_non_match],
                 Tail(pi_df_collected))

\* Params._populate_params_from_maximisation_step
populate_params_from_maximisation_step(obj, lambda_value, pi_df_collected) ==
    [obj EXCEPT !.params =
        SetProbabilities(
            reset_all_probabilities(
                [@ EXCEPT !.proportion_of_matches = lambda_value]),
            pi_df_collected)]

NoDict == [x \in {} |-> 0]

\* Params._to_dict
to_dict(obj) ==
    [current_params |-> obj.params,
     historical_params |-> obj.param_history,
     settings |-> obj.settings,
     settings_original |-> obj.settings_original]

expected_keys ==
    {"current_params", "settings_original", "settings", "historical_params"}

\* mutant: the payload is accepted when it has the four keys, extra keys
\* being ignored
KeysAcceptedIfPresent(keys) == expected_keys \subseteq keys

\* if keys == expected_keys
KeysAccepted(keys) == keys = expected_keys

\* mutant: the loaded object keeps the parameters its constructor made from
\* the settings
LoadedParamsFromSettings(fresh, d) ==
    [fresh EXCEPT !.param_history = d.historical_params,
                  !.settings_original = d.settings_original]

\* p.params = ...; p.param_history = ...; p.settings_original = ...
LoadedParams(fresh, d) ==
    [fresh EXCEPT !.params = d.current_params,
                  !.param_history = d.historical_params,
                  !.settings_original = d.settings_original]

\* load_params_from_dict(param_dict); the object is made by
\* Params(settings=param_dict["settings"], spark=None)
load_params_from_dict(d) ==
    IF KeysAccepted(DOMAIN d)
    THEN [status |-> "ok",
          p |-> LoadedParams(ParamsInit(d.settings), d)]
    ELSE [status |-> "raised", error |-> "ValueError",
          message |-> "Your saved params seem to be corrupted"]

-----------------------------------------------------------------------------
(* params.Params.is_converged and params._flatten_dict.  The parameters    *)
(* are read as the nested dictionary that the readers of Params use        *)
(* (params["λ"], params["π"][gamma]["prob_dist_match"][level]             *)
(* ["probability"]); a key of the flattened dictionary is held as the      *)
(* sequence of the keys that "_" joins.                                    *)

DictNode(items) == [dict |-> TRUE, items |-> items]

Leaf(v) == [dict |-> FALSE, value |-> v]

LevelKeys == << "level_0", "level_1", "level_2" >>

\* prob_dist_match / prob_dist_non_match of one comparison column
prob_dist(probabilities) ==
    DictNode([k \in {LevelKeys[i] : i \in DOMAIN probabilities} |->
                LET i == CHOOSE j \in DOMAIN probabilities : LevelKeys[j] = k
                IN  DictNode([f \in {"value", "probability"} |->
                                IF f = "value" THEN Leaf(i - 1)
                                ELSE Leaf(probabilities[i])])])

\* the parameters as the dictionary with the keys λ and π
params_as_dict(params) ==
    DictNode([k \in {"λ", "π"} |->
       IF k = "λ" THEN Leaf(params.proportion_of_matches)
       ELSE DictNode([g \in {"gamma_" \o params.col_name} |->
              DictNode([f \in {"num_levels", "prob_dist_match",
                               "prob_dist_non_match"} |->
                 CASE f = "num_levels" -> Leaf(params.num_levels)
                   [] f = "prob_dist_match" -> prob_dist(params.m_probabilities)
                   [] OTHER -> prob_dist(params.u_probabilities)])])])

\* _flatten_dict(dictionary, accumulator, parent_key, separator="_")
RECURSIVE flatten_dict(_, _)
flatten_dict(dictionary, parent_key) ==
    UNION { LET k == parent_key \o << key >>
                v == dictionary.items[key]
            IN  IF v.dict THEN flatten_dict(v, k)
                ELSE { [key |-> k, value |-> v.value] } :
            key \in DOMAIN dictionary.items }

\* "_probability" in key.lower(): of the keys of the parameter dictionary
\* only "probability" holds the text, and it follows a separator when it
\* is not the first key of the path
probability_in_key(key) ==
    \E i \in DOMAIN key : i > 1 /\ key[i] = "probability"

\* p_new, p_old: the entries of the flattened dictionary that are compared
compared_entries(params) ==
    { kv \in flatten_dict(params_as_dict(params), <<>>) :
         probability_in_key(kv.key) }

\* Params.is_converged: IndexError without a previous snapshot, TypeError
\* when a compared probability is None
is_converged(obj) ==
    IF obj.param_history = <<>>
    THEN [status |-> "raised", error |-> "IndexError"]
    ELSE LET p_new == compared_entries(obj.params)
             p_old == compared_entries(obj.param_history[Len(obj.param_history)])
             old(key) == (CHOOSE kv \in p_old : kv.key = key).value
         IN  IF \E kv \in p_new : kv.value = NoneProbability
             THEN [status |-> "raised", error |-> "TypeError"]
             ELSE [status |-> "ok",
                   value |-> \A kv \in p_new :
                                Abs(kv.value - old(kv.key)) < EmConvergence]

-----------------------------------------------------------------------------
(* estimate_u.estimate_u_values: u probabilities from a random sample.     *)
(* Row counts that the code holds as floats are held in hundredths         *)
(* (Scale), the sampling proportion in millionths (Micro).                 *)

\* floor of the square root of x, searched below hi
ISqrt(x, hi) == CHOOSE r \in 0..hi : r * r <= x /\ x < (r + 1) * (r + 1)

\* _num_target_rows_to_rows_to_sample:
\* 0.5 * ((8 * target_rows + 1) ** 0.5 + 1), in hundredths of a row
num_target_rows_to_rows_to_sample(target_rows) ==
    (ISqrt((8 * target_rows + 1) * Scale * Scale, (2 * target_rows + 1) * Scale)
       + Scale) \div 2

\* mutant: the proportion is passed on as computed
ProportionNotCapped(proportion) == proportion

\* if proportion >= 1.0: proportion = 1.0
CappedProportion(proportion) ==
    IF proportion >= Micro THEN Micro ELSE proportion

\* if sample_size > count_rows: sample_size = count_rows
CappedSampleSize(sample_size, count_rows) ==
    IF sample_size > count_rows * Scale THEN count_rows * Scale ELSE sample_size

\* dedupe_only / link_and_dedupe: the sample size and the proportion handed
\* to _random_sample_sql; the proportion is computed before the size is capped
rows_to_sample(count_rows, target_rows) ==
    LET sample_size == num_target_rows_to_rows_to_sample(target_rows)
        proportion == (sample_size * Micro) \div (count_rows * Scale)
    IN  [derived |-> sample_size,
         sample_size |-> CappedSampleSize(sample_size, count_rows),
         proportion |-> CappedProportion(proportion)]

\* _random_sample_sql(proportion, sample_size): the row numbers a sample of
\* __splink__df_concat_with_tf can hold; proportion 1.0 takes every row
random_sample(count_rows, proportion) ==
    IF proportion >= Micro THEN { 1..count_rows } ELSE SUBSET (1..count_rows)

RECURSIVE Pow(_, _)
Pow(b, e) == IF e = 0 THEN 1 ELSE b * Pow(b, e - 1)

\* the least k with (1 - 1/N)^k <= 1 - t/N
RECURSIVE LeastDraws(_, _, _)
LeastDraws(total_rows, target_rows, k) ==
    IF Pow(total_rows - 1, k) * total_rows
          <= (total_rows - target_rows) * Pow(total_rows, k)
    THEN k
    ELSE LeastDraws(total_rows, target_rows, k + 1)

\* _num_target_rows_to_pairs_to_sample:
\* ceil(log10(1 - target_rows/total_rows) / log10(1 - 1/total_rows))
num_target_rows_to_pairs_to_sample(total_rows, target_rows) ==
    LeastDraws(total_rows, target_rows, 0)

\* a sample row that carries no sample_id column
NoSampleId == 0

\* mutant: no "select distinct ... first_value(...)": a row pair that is drawn
\* again is kept once more, with the number of the later draw
sampled_row_pairs_per_draw(count_l, count_r, number_of_rows_to_sample) ==
    LET space == (1..count_l) \X (1..count_r)
        Before(p, q) == p[1] < q[1] \/ (p[1] = q[1] /\ p[2] <= q[2])
        Rank(drawn, p) == Cardinality({q \in drawn : Before(q, p)})
    IN  { { [row_l |-> p[1], row_r |-> p[2], sample_id |-> Rank(drawn, p)] :
            p \in drawn }
            \cup { [row_l |-> p[1], row_r |-> p[2],
                    sample_id |-> Cardinality(drawn) + 1] :
                   p \in {q \in drawn :
                            /\ Cardinality(drawn) < number_of_rows_to_sample
                            /\ Rank(drawn, q) = 1} } :
          drawn \in {d \in SUBSET space :
                       /\ Cardinality(d) <= number_of_rows_to_sample
                       /\ number_of_rows_to_sample > 0 => d # {}} }

\* __splink__df_concat_sampled_row_pairs: the distinct (row_l, row_r) among
\* the random draws, each with the number of one of its draws as sample_id;
\* the pairs are numbered here in the order of their first draw
sampled_row_pairs(count_l, count_r, number_of_rows_to_sample) ==
    LET space == (1..count_l) \X (1..count_r)
        Before(p, q) == p[1] < q[1] \/ (p[1] = q[1] /\ p[2] <= q[2])
    IN  { { [row_l |-> p[1], row_r |-> p[2],
             sample_id |-> Cardinality({q \in drawn : Before(q, p)})] :
            p \in drawn } :
          drawn \in {d \in SUBSET space :
                       /\ Cardinality(d) <= number_of_rows_to_sample
                       /\ number_of_rows_to_sample > 0 => d # {}} }

RuleSampleId == "l.sample_id = r.sample_id"

\* lines 66-95: the row count, then the sample of the concatenated table
DedupeSamples(lnk, target_rows) ==
    LET count_rows == Len(compute_df_concat(lnk))
        s == rows_to_sample(count_rows, target_rows)
    IN  { [count_rows |-> count_rows, derived |-> s.derived,
           sample_size |-> s.sample_size, proportion |-> s.proportion,
           total_rows |-> 0, sample_tables_on_link_only |-> TRUE,
           number_of_rows_to_sample |-> 0, sampled_row_pairs |-> {},
           input_dataframes |->
               << { [row |-> i, sample_id |-> NoSampleId] : i \in rows } >>,
           input_names |-> << "__splink__df_concat_with_tf_sample" >>,
           tables |->
               CountedAndDropped("__splink__df_concat_count")
                 \o << Ev("create", "__splink__df_concat_with_tf_sample") >>] :
          rows \in random_sample(count_rows, s.proportion) }

\* lines 66-75 and 97-197: the row counts of the two tables, then either
\* both tables whole or the rows of the sampled row pairs
LinkOnlySamples(lnk, target_rows) ==
    LET count_l == Len(lnk.input_tables[1])
        count_r == Len(lnk.input_tables[2])
        total_rows == count_l * count_r
        counted == CountedAndDropped("__splink__df_concat_count")
                     \o CountedAndDropped("__splink__df_concat_counts_lr")
        number_of_rows_to_sample ==
            num_target_rows_to_pairs_to_sample(total_rows, target_rows)
        Stage(sampling, k, pairs, df_l, df_r, events) ==
            [count_rows |-> count_l + count_r, derived |-> 0,
             sample_size |-> 0, proportion |-> 0,
             total_rows |-> total_rows,
             sample_tables_on_link_only |-> sampling,
             number_of_rows_to_sample |-> k, sampled_row_pairs |-> pairs,
             input_dataframes |-> << df_l, df_r >>,
             input_names |-> << "__splink__df_concat_with_tf_left_sample",
                                "__splink__df_concat_with_tf_right_sample" >>,
             tables |-> counted \o events]
    IN  IF target_rows >= total_rows
        THEN { Stage(FALSE, 0, {},
                     { [row |-> i, sample_id |-> NoSampleId] : i \in 1..count_l },
                     { [row |-> count_l + i, sample_id |-> NoSampleId] :
                         i \in 1..count_r },
                     << Ev("create", "__splink__df_concat_with_tf_left_sample"),
                        Ev("create", "__splink__df_concat_with_tf_right_sample") >>) }
        ELSE { Stage(TRUE, number_of_rows_to_sample, pairs,
                     { [row |-> p.row_l, sample_id |-> p.sample_id] : p \in pairs },
                     { [row |-> count_l + p.row_r, sample_id |-> p.sample_id] :
                         p \in pairs },
                     << Ev("create", "__splink__df_concat_sampled_row_pairs"),
                        Ev("read", "__splink__df_concat_sampled_row_pairs"),
                        Ev("create", "__splink__df_concat_with_tf_left_sample"),
                        Ev("read", "__splink__df_concat_sampled_row_pairs"),
                        Ev("create", "__splink__df_concat_with_tf_right_sample"),
                        Ev("drop", "__splink__df_concat_sampled_row_pairs") >>) :
               pairs \in sampled_row_pairs(count_l, count_r,
                                           number_of_rows_to_sample) }

\* mutant: the sample tables of a link_only job are never joined on sample_id
NoSampleIdRule(link_type, sample_tables_on_link_only) == <<>>

\* lines 200-203: the blocking rules of the training copy
sample_blocking_rules(link_type, sample_tables_on_link_only) ==
    IF link_type = "link_only" /\ sample_tables_on_link_only
    THEN << RuleSampleId >>
    ELSE <<>>

\* block_using_rules_sql on the training copy: the rows of the join of the
\* sample tables, one per pair of sample rows that the link type allows and
\* that satisfies the blocking rule, if there is one
block_sample_rows(concat, input_dataframes, brs, link_type) ==
    LET df_l == input_dataframes[1]
        df_r == input_dataframes[Len(input_dataframes)]
    IN  { [l |-> p[1].row, r |-> p[2].row,
           sample_id_l |-> p[1].sample_id, sample_id_r |-> p[2].sample_id] :
          p \in {q \in df_l \X df_r :
                   /\ sql_gen_where_condition(link_type, concat[q[1].row],
                                              concat[q[2].row])
                   /\ brs # <<>> => q[1].sample_id = q[2].sample_id} }

\* the pairs of input rows that the blocked sample compares
block_samples(concat, input_dataframes, brs, link_type) ==
    { [l |-> b.l, r |-> b.r] :
      b \in block_sample_rows(concat, input_dataframes, brs, link_type) }

PriorRecordName == "_probability_two_random_records_match"

\* compute_new_parameters_sql and compute_proportions_for_new_parameters over
\* pairs whose match_probability is 0.0: one record per observed level, and
\* the record of the prior
param_records(scored, comparisons) ==
    UNION { { [output_column_name |-> cc.output_column_name,
               comparison_vector_value |-> cl.comparison_vector_value,
               m_probability |-> NewProbability(scored, cc, cl, "m"),
               u_probability |-> NewProbability(scored, cc, cl, "u")] :
              cl \in {x \in SeqToSet(comparison_levels_excluding_null(cc)) :
                        \E p \in scored :
                           p.gamma[cc.output_column_name]
                             = x.comparison_vector_value} } :
            cc \in SeqToSet(comparisons) }
      \cup { [output_column_name |-> PriorRecordName,
              comparison_vector_value |-> 0,
              m_probability |-> 0, u_probability |-> Scale] }

\* lines 251-255
m_u_records(records) ==
    {r \in records : r.output_column_name # PriorRecordName}

EstimateUDesc == "estimate u by random sampling"

\* append_u_probability_to_comparison_level_trained_probabilities: the u of
\* the record of the level, or the sentinel when the lookup has none
append_u_probability(cl, name, m_u_records_lookup, training_description) ==
    LET hit == {r \in m_u_records_lookup :
                  /\ r.output_column_name = name
                  /\ r.comparison_vector_value = cl.comparison_vector_value}
        u_probability == IF hit = {} THEN LEVEL_NOT_OBSERVED
                         ELSE (CHOOSE r \in hit : TRUE).u_probability
    IN  [cl EXCEPT !.trained_u_probabilities =
            Append(@, [probability |-> u_probability,
                       description |-> training_description])]

\* mutant: the loop runs over every level of a comparison, the null level too
MergeIntoEveryLevel(original_settings_obj, m_u_records_lookup) ==
    [original_settings_obj EXCEPT !.comparisons =
       [i \in DOMAIN @ |->
          LET c == @[i]
          IN  [c EXCEPT !.comparison_levels =
                 [j \in DOMAIN @ |->
                    append_u_probability(@[j], c.output_column_name,
                                         m_u_records_lookup, EstimateUDesc)]]]]

\* lines 257-262: for c in original_settings_obj.comparisons, for cl in
\* c._comparison_levels_excluding_null
MergeUValues(original_settings_obj, m_u_records_lookup) ==
    [original_settings_obj EXCEPT !.comparisons =
       [i \in DOMAIN @ |->
          LET c == @[i]
          IN  [c EXCEPT !.comparison_levels =
                 [j \in DOMAIN @ |->
                    IF @[j].is_null_level THEN @[j]
                    ELSE append_u_probability(@[j], c.output_column_name,
                                              m_u_records_lookup, EstimateUDesc)]]]]

\* lines 205-249: the sample goes through blocking, comparison vectors and
\* the parameter counts in one pipeline; then the staged tables are dropped
SampleEvents(input_names, repartition_after_blocking) ==
    LET reads == [i \in DOMAIN input_names |-> Ev("read", input_names[i])]
        drops == [i \in DOMAIN input_names |-> Ev("drop", input_names[i])]
    IN  (IF repartition_after_blocking
         THEN reads \o << Ev("create", "__splink__df_blocked"),
                          Ev("read", "__splink__df_blocked") >>
         ELSE reads)
          \o << Ev("create", "__splink__m_u_counts"),
                Ev("read", "__splink__m_u_counts"),
                Ev("drop", "__splink__m_u_counts") >>
          \o drops

\* training_linker = deepcopy(linker) after lines 56-64 and 200-203: the
\* flags of the sampling mode, no retained columns, no term frequency
\* adjustment, the blocking rules of the sample
training_linker_settings(lnk, brs) ==
    [f \in {"train_u_using_random_sample_mode", "training_mode"} |-> TRUE]
      @@ [tf_turned_off(lnk) EXCEPT
            !.blocking_rules_to_generate_predictions = brs]

\* training_linker = deepcopy(linker): the caller's linker after the call
LinkerAfterEstimate(lnk) == lnk

\* a call of _enqueue_sql: the linker object it is made on and the name of
\* the output table
Enqueue(on, table) == [on |-> on, table |-> table]

\* the _enqueue_sql calls of estimate_u_values, in order (lines 152, 206,
\* 227, 234, 237)
enqueued_sql(link_type, sample_tables_on_link_only) ==
    (IF link_type = "link_only" /\ sample_tables_on_link_only
     THEN << Enqueue("training_linker", "__splink__df_concat_sampled_row_pairs") >>
     ELSE <<>>)
      \o << Enqueue("training_linker", "__splink__df_blocked"),
            Enqueue("training_linker", "__splink__df_comparison_vectors"),
            Enqueue("training_linker", "__splink__df_predict"),
            Enqueue("linker", "__splink__m_u_counts") >>

\* mutant: the pairs are scored by an expectation step with the current
\* parameters of the model
df_predict_by_expectation_step(cvv, cms) == ExpectationStep(cvv, cms)

\* __splink__df_predict: select *, cast(0.0 as double) as match_probability
\* from __splink__df_comparison_vectors
df_predict(cvv, cms) ==
    { [l |-> p.l, r |-> p.r, gamma |-> p.gamma, match_probability |-> 0] :
      p \in cvv }

estimate_u_values(lnk, original_settings_obj, target_rows, stage, repartition_after_blocking) ==
    LET concat == compute_df_concat(lnk)
        brs == sample_blocking_rules(lnk.link_type,
                                     stage.sample_tables_on_link_only)
        names == {original_settings_obj.comparisons[i].output_column_name :
                    i \in DOMAIN original_settings_obj.comparisons}
        Scored(blocked) ==
            df_predict(
                { [l |-> b.l, r |-> b.r,
                   gamma |-> [c \in names |->
                                Gamma(c, concat[b.l], concat[b.r])]] :
                  b \in blocked },
                original_settings_obj)
        Result(blocked, records) ==
            [status |-> "ok", stage |-> stage, blocking_rules |-> brs,
             blocked |-> blocked,
             blocked_rows |-> block_sample_rows(concat, stage.input_dataframes,
                                                brs, lnk.link_type),
             match_probabilities |->
                 {p.match_probability : p \in Scored(blocked)},
             enqueued |-> enqueued_sql(lnk.link_type,
                                       stage.sample_tables_on_link_only),
             training_linker |-> training_linker_settings(lnk, brs),
             m_u_records |-> records,
             settings_after |-> MergeUValues(original_settings_obj, records),
             tables |-> stage.tables
                          \o SampleEvents(stage.input_names,
                                          repartition_after_blocking)]
    IN  CHOOSE res \in
          UNION { { Result(blocked, records) :
                    records \in
                      { m_u_records(param_records(
                            Scored(blocked),
                            original_settings_obj.comparisons)) } } :
                  blocked \in {block_samples(concat, stage.input_dataframes,
                                             brs, lnk.link_type)} } : TRUE

-----------------------------------------------------------------------------
(* Comparison creators and configure(m_probabilities, u_probabilities)     *)

NoComparison == [exists |-> FALSE]

\* an argument of configure that is not supplied
Unsupplied == <<>>

\* a comparison creator: its levels besides the null level are the exact
\* match level, one level per threshold and the else level
ComparisonCreator(creator, thresholds) ==
    [exists |-> TRUE, creator |-> creator, thresholds |-> thresholds,
     m_probabilities |-> Unsupplied, u_probabilities |-> Unsupplied]

\* cl.ExactMatch("col")
ExactMatch == ComparisonCreator("ExactMatch", <<>>)

\* cl.LevenshteinAtThresholds("col", [1, 2, 3])
LevenshteinAtThresholds(thresholds) ==
    ComparisonCreator("LevenshteinAtThresholds", thresholds)

num_non_null_levels(c) == Len(c.thresholds) + 2

\* mutant: a list shorter than the levels is accepted
LengthAcceptedUpTo(probabilities, n) ==
    probabilities = Unsupplied \/ Len(probabilities) <= n

\* a supplied list has one probability per non-null level
LengthAccepted(probabilities, n) ==
    probabilities = Unsupplied \/ Len(probabilities) = n

\* creator.configure(m_probabilities=..., u_probabilities=...)
configure(c, m_probabilities, u_probabilities) ==
    IF /\ LengthAccepted(m_probabilities, num_non_null_levels(c))
       /\ LengthAccepted(u_probabilities, num_non_null_levels(c))
    THEN [status |-> "ok",
          comparison |->
              [c EXCEPT
                 !.m_probabilities =
                     IF m_probabilities = Unsupplied THEN @ ELSE m_probabilities,
                 !.u_probabilities =
                     IF u_probabilities = Unsupplied THEN @ ELSE u_probabilities]]
    ELSE [status |-> "raised", error |-> "ValueError", comparison |-> c]

-----------------------------------------------------------------------------
(* The cost analyser as a state machine: a linker over some input data, on *)
(* which the two analyser functions are called with any arguments.         *)

RECURSIVE SeqsUpTo(_, _)
SeqsUpTo(S, n) ==
    IF n = 0 THEN { <<>> }
    ELSE LET shorter == SeqsUpTo(S, n - 1)
         IN  shorter \cup
               {Append(p[1], p[2]) :
                  p \in {q \in shorter \X S :
                            \A i \in DOMAIN q[1] : q[1][i] # q[2]}}

\* the rule lists a caller passes: distinct rules, possibly none
RuleLists == SeqsUpTo(RuleCatalogue, MaxRules)

SettingsRuleLists == { <<RuleK1K2, RuleK1>> }

InputTables ==
    UNION { { <<t>> : t \in TablesOfSize(n) } : n \in 2..MaxRows }

InputTablePairs ==
    UNION { { <<tl, tr>> : tl \in TablesOfSize(nl), tr \in TablesOfSize(nr) } :
            nl \in 1..(MaxRows - 1), nr \in 1..(MaxRows - 1) }

\* cl._tf_adjustment_column of every level of every comparison: the exact
\* match level of the first comparison is adjusted on k1
TfColumns ==
    << << NoTfColumn, "k1", NoTfColumn >>,
       << NoTfColumn, NoTfColumn, NoTfColumn >> >>

Linkers ==
    { [link_type |-> lt, input_tables |-> ts,
       blocking_rules_to_generate_predictions |-> sr,
       retain_matching_columns |-> TRUE,
       retain_intermediate_calculation_columns |-> TRUE,
       tf_adjustment_column |-> TfColumns] :
      lt \in LinkTypes,
      ts \in InputTables \cup InputTablePairs,
      sr \in SettingsRuleLists }

ValidLinker(lnk) ==
    /\ lnk.link_type = "dedupe_only" <=> Len(lnk.input_tables) = 1
    /\ Len(compute_df_concat(lnk)) <= MaxRows

NoCall == [op |-> "none"]
NoRet == [status |-> "none"]

InitBlocking ==
    /\ linker \in {lnk \in Linkers : ValidLinker(lnk)}
    /\ call = NoCall
    /\ ret = NoRet
    /\ settings = InitialSettings
    /\ train_args = NoTrainArgs
    /\ session = NoSession
    /\ outcome = NoOutcome
    /\ ntrain = 0
    /\ params_obj = NoParams
    /\ param_dict = NoDict
    /\ loaded = NoParams
    /\ comparison = NoComparison

\* the function works on deepcopy(linker): the caller's linker is not touched
CallCumulativeComparisons ==
    \E blocking_rules \in RuleLists, output_chart \in BOOLEAN :
        /\ call = NoCall
        /\ call' = [op |-> "cumulative", blocking_rules |-> blocking_rules,
                    output_chart |-> output_chart, linker_before |-> linker]
        /\ ret' = cumulative_comparisons_generated_by_blocking_rules(
                      linker, blocking_rules, output_chart)
        /\ linker' = LinkerAfterAnalysis(linker)
        /\ UNCHANGED <<comparison, training_vars, params_vars>>

CallCountPreFilter ==
    \E blocking_rule \in RuleCatalogue :
        /\ call = NoCall
        /\ call' = [op |-> "pre_filter", blocking_rule |-> blocking_rule]
        /\ ret' = count_comparisons_from_blocking_rule_pre_filter_conditions(
                      linker, blocking_rule)
        /\ UNCHANGED <<linker, comparison, training_vars, params_vars>>

\* the caller has read the result; the linker is ready for the next call
ReturnToCaller ==
    /\ call # NoCall
    /\ call' = NoCall
    /\ ret' = NoRet
    /\ UNCHANGED <<linker, comparison, training_vars, params_vars>>

NextBlocking ==
    CallCumulativeComparisons \/ CallCountPreFilter \/ ReturnToCaller

SpecBlocking == InitBlocking /\ [][NextBlocking]_vars

-----------------------------------------------------------------------------
(* Training sessions as a state machine: the caller constructs sessions on *)
(* the canonical model and runs _train on them.                            *)

TrainingRules == {RuleK1, RuleK1K2, RuleTrue, RuleFalse}

\* the options of a run: any combination of fixed parameters with the
\* automatic deactivation, or an explicit deactivation list (one
\* comparison, or the empty list)
TrainArgs ==
    [fix_u : BOOLEAN, fix_m : BOOLEAN, fix_lambda : BOOLEAN,
     comparisons_to_deactivate : {NoneGiven}]
      \cup
    [fix_u : {FALSE}, fix_m : {FALSE}, fix_lambda : {FALSE},
     comparisons_to_deactivate : {[given |-> TRUE, names |-> <<"k2">>],
                                  [given |-> TRUE, names |-> <<>>]}]

\* training data: one table to deduplicate, k1 always filled in
TrainingTables ==
    UNION { {t \in TablesOfSize(n) : \A i \in 1..n : t[i].k1 # Null} :
            n \in 2..MaxRows }

TrainingLinkers ==
    {lnk \in Linkers :
        /\ lnk.link_type = "dedupe_only"
        /\ lnk.input_tables \in { <<t>> : t \in TrainingTables }}

\* the cvv argument of _train: None, a precomputed table of the session's
\* comparison vectors, or a precomputed table without rows
CvvArgs == {"none", "computed", "empty"}

InitTraining ==
    /\ linker \in TrainingLinkers
    /\ call = NoCall
    /\ ret = NoRet
    /\ settings = InitialSettings
    /\ train_args \in TrainArgs
    /\ session = NoSession
    /\ outcome = NoOutcome
    /\ ntrain = 0
    /\ params_obj = NoParams
    /\ param_dict = NoDict
    /\ loaded = NoParams
    /\ comparison = NoComparison

\* EMTrainingSession(linker, blocking_rule_for_training, ...)
Construct ==
    \E br \in TrainingRules :
        /\ ntrain < MaxTrainCalls
        /\ LET new_session ==
                   EMTrainingSessionInit(settings, br, train_args.fix_u,
                                         train_args.fix_m, train_args.fix_lambda,
                                         train_args.comparisons_to_deactivate)
           IN  /\ session' = new_session
               /\ settings' = OriginalAfterInit(settings, new_session)
        /\ outcome' = Outcome("__init__", "none", "ok", "", <<>>, <<>>, FALSE)
        /\ UNCHANGED <<linker, comparison, analyser_vars, train_args, ntrain, params_vars>>

\* a non-empty comparison_levels_to_reverse_blocking_rule argument:
\* raise ValueError("This path is broken for now.")
ConstructBrokenPath ==
    /\ ntrain < MaxTrainCalls
    /\ outcome.op # "__init__"
    /\ outcome' = Outcome("__init__", "none", "raised", "ValueError",
                          << "This path is broken for now." >>, <<>>, FALSE)
    /\ UNCHANGED <<linker, comparison, analyser_vars, settings, train_args, session, ntrain,
                   params_vars>>

\* not cvv.as_record_dict(limit=1)
NoRecordPairs(cvv) == cvv = {}

\* session._train(cvv)
Train ==
    \E cvv_arg \in CvvArgs :
        /\ session.exists
        /\ ntrain < MaxTrainCalls
        /\ ntrain' = ntrain + 1
        /\ UNCHANGED <<linker, comparison, analyser_vars, train_args, params_vars>>
        /\ LET br == session.blocking_rule_for_training
               fix_m == session.training_fix_m_probabilities
               fix_u == session.training_fix_u_probabilities
               fix_lambda ==
                   session.training_fix_probability_two_random_records_match
               computed ==
                   ComparisonVectors(
                       linker, br,
                       SeqToSet(session.comparisons_that_can_be_estimated))
               cvv == IF cvv_arg = "empty" THEN {} ELSE computed
               queries ==
                   (IF cvv_arg = "none" THEN ComparisonVectorQueries ELSE <<>>)
                     \o << "as_record_dict(limit=1)" >>
           IN  IF cvv_arg = "none" /\ fix_m /\ fix_u
               THEN \* _training_log_message raises before any query
                    /\ outcome' =
                         Outcome("_train", cvv_arg, "raised", "ValueError",
                                 << "Can't train model if you fix both m and u probabilites" >>,
                                 <<>>, FALSE)
                    /\ UNCHANGED <<settings, session>>
               ELSE IF NoRecordPairs(cvv)
               THEN /\ outcome' =
                         Outcome("_train", cvv_arg, "raised",
                                 "EMTrainingException", NoPairsMessage(br),
                                 queries, FALSE)
                    /\ UNCHANGED <<settings, session>>
               ELSE \E history \in
                        { expectation_maximisation(
                              cvv, session.core_model_settings,
                              fix_m, fix_u, fix_lambda) } :
                        /\ session' =
                              [session EXCEPT
                                 !.core_model_settings = FinalSnapshot(history),
                                 !.core_model_settings_history = history]
                        /\ settings' =
                              FoldBack(settings, FinalSnapshot(history),
                                       fix_m, fix_u, TrainingDesc(br))
                        /\ outcome' =
                              Outcome("_train", cvv_arg, "ok", "", <<>>,
                                      queries, TRUE)

NextTraining == Construct \/ ConstructBrokenPath \/ Train

SpecTraining == InitTraining /\ [][NextTraining]_vars

-----------------------------------------------------------------------------
(* Parameter histories as a state machine: the caller constructs a Params  *)
(* object, updates it, exports it, reads payloads and loads them.          *)

MaxHistory == 2

NoLinker == [link_type |-> "none"]

\* lambda_value and pi_df_collected of a maximisation step
LambdaValues == {40}

PiRow(gamma_value, m, u) ==
    [column_name |-> "k1", gamma_value |-> gamma_value,
     new_probability_match |-> m, new_probability_non_match |-> u]

PiRowLists ==
    { << PiRow(0, 20, 70), PiRow(1, 80, 30) >>, << PiRow(1, 100, 100) >> }

\* parameter histories found in a payload written by an earlier run
SavedHistories ==
    SeqsUpTo({complete_settings_dict(sd) : sd \in SettingsDicts}, MaxHistory)
        \ { <<>> }

\* the payloads a file can hold in place of an exported one: a key lost, a
\* key added, the history of an earlier run
PayloadsFrom(d) ==
    { [k \in (DOMAIN d) \ {lost} |-> d[k]] : lost \in DOMAIN d }
      \cup { [k \in (DOMAIN d) \cup {"version"} |->
                 IF k = "version" THEN d.settings ELSE d[k]] }
      \cup { [d EXCEPT !.historical_params = h] : h \in SavedHistories }

InitParams ==
    /\ linker = NoLinker
    /\ call = NoCall
    /\ ret = NoRet
    /\ settings = InitialSettings
    /\ train_args = NoTrainArgs
    /\ session = NoSession
    /\ outcome = NoOutcome
    /\ ntrain = 0
    /\ params_obj = NoParams
    /\ param_dict = NoDict
    /\ loaded = NoParams
    /\ comparison = NoComparison

\* Params(settings, spark)
NewParams ==
    \E settings_dict \in SettingsDicts :
        /\ ~params_obj.exists
        /\ params_obj' = ParamsInit(settings_dict)
        /\ call' = [op |-> "Params"]
        /\ ret' = [status |-> "ok"]
        /\ UNCHANGED <<linker, comparison, training_vars, param_dict, loaded>>

\* params._populate_params_from_maximisation_step(lambda_value, pi_df_collected)
PopulateParams ==
    \E lambda_value \in LambdaValues, pi_df_collected \in PiRowLists :
        /\ params_obj.exists
        /\ params_obj' = populate_params_from_maximisation_step(
                             params_obj, lambda_value, pi_df_collected)
        /\ call' = [op |-> "_populate_params_from_maximisation_step"]
        /\ ret' = [status |-> "ok"]
        /\ UNCHANGED <<linker, comparison, training_vars, param_dict, loaded>>

\* params.save_params_to_iteration_history(): copy.deepcopy(self.params)
\* names the module copy, which params.py does not import
SaveParamsToIterationHistory ==
    /\ params_obj.exists
    /\ call' = [op |-> "save_params_to_iteration_history"]
    /\ ret' = [status |-> "raised", error |-> "NameError"]
    /\ UNCHANGED <<linker, comparison, training_vars, params_vars>>

\* params._update_params(...): self._reset_param_values_to_none is no
\* attribute of Params
UpdateParams ==
    /\ params_obj.exists
    /\ call' = [op |-> "_update_params"]
    /\ ret' = [status |-> "raised", error |-> "AttributeError"]
    /\ UNCHANGED <<linker, comparison, training_vars, params_vars>>

\* params.is_converged()
IsConverged ==
    /\ params_obj.exists
    /\ call' = [op |-> "is_converged"]
    /\ ret' = is_converged(params_obj)
    /\ UNCHANGED <<linker, comparison, training_vars, params_vars>>

\* d = params._to_dict()
ToDict ==
    /\ params_obj.exists
    /\ param_dict' = to_dict(params_obj)
    /\ loaded' = NoParams
    /\ call' = [op |-> "_to_dict"]
    /\ ret' = [status |-> "ok"]
    /\ UNCHANGED <<linker, comparison, training_vars, params_obj>>

\* the payload is read back from a file that holds something else
ReadPayload ==
    /\ params_obj.exists
    /\ param_dict = to_dict(params_obj)
    /\ param_dict' \in PayloadsFrom(param_dict)
    /\ loaded' = NoParams
    /\ call' = [op |-> "read"]
    /\ ret' = [status |-> "ok"]
    /\ UNCHANGED <<linker, comparison, training_vars, params_obj>>

\* loaded = load_params_from_dict(param_dict)
LoadParamsFromDict ==
    /\ param_dict # NoDict
    /\ call' = [op |-> "load_params_from_dict"]
    /\ \E res \in {load_params_from_dict(param_dict)} :
          /\ ret' = [status |-> res.status,
                     error |-> IF res.status = "ok" THEN "" ELSE res.error]
          /\ loaded' = IF res.status = "ok" THEN res.p ELSE loaded
    /\ UNCHANGED <<linker, comparison, training_vars, params_obj, param_dict>>

\* the caller goes on with the loaded object
UseLoaded ==
    /\ loaded.exists
    /\ params_obj' = loaded
    /\ loaded' = NoParams
    /\ param_dict' = NoDict
    /\ call' = NoCall
    /\ ret' = NoRet
    /\ UNCHANGED <<linker, comparison, training_vars>>

NextParams ==
    \/ NewParams \/ PopulateParams \/ SaveParamsToIterationHistory
    \/ UpdateParams \/ ToDict \/ ReadPayload \/ LoadParamsFromDict
    \/ UseLoaded \/ IsConverged

SpecParams == InitParams /\ [][NextParams]_vars

-----------------------------------------------------------------------------
(* u estimation as a state machine: the caller runs estimate_u_values on   *)
(* the linker and the canonical model, with any target number of pairs;    *)
(* a behaviour is one run of the function.                                 *)

MaxTarget == 3

\* sample data: k1 always filled in
EstimateTables(n) == {t \in TablesOfSize(n) : \A i \in 1..n : t[i].k1 # Null}

\* one table to deduplicate, or two tables to link or to link and deduplicate
EstimateLinkers ==
    {lnk \in Linkers :
        \/ /\ lnk.link_type = "dedupe_only"
           /\ \E n \in 2..MaxRows : lnk.input_tables \in { <<t>> : t \in EstimateTables(n) }
        \/ /\ lnk.link_type # "dedupe_only"
           /\ Len(lnk.input_tables) = 2
           /\ Len(compute_df_concat(lnk)) <= MaxRows + 1
           /\ \A i \in 1..2 :
                lnk.input_tables[i] \in EstimateTables(Len(lnk.input_tables[i]))}

\* the canonical model before the call: untrained, or with the values of an
\* earlier EM session
EstimateSettings ==
    { InitialSettings,
      FoldBack(InitialSettings, InitialSettings, FALSE, FALSE, TrainingDesc(RuleK1)) }

InitEstimate ==
    /\ linker \in EstimateLinkers
    /\ call = NoCall
    /\ ret = NoRet
    /\ settings \in EstimateSettings
    /\ train_args = NoTrainArgs
    /\ session = NoSession
    /\ outcome = NoOutcome
    /\ ntrain = 0
    /\ params_obj = NoParams
    /\ param_dict = NoDict
    /\ loaded = NoParams
    /\ comparison = NoComparison

\* estimate_u_values(linker, target_rows): the sampling is done on
\* deepcopy(linker), the u values are merged into linker._settings_obj
CallEstimateUValues ==
    \E target_rows \in 1..MaxTarget, repartition_after_blocking \in BOOLEAN :
        /\ call = NoCall
        /\ call' = [op |-> "estimate_u_values", target_rows |-> target_rows,
                    repartition_after_blocking |-> repartition_after_blocking,
                    settings_before |-> settings, linker_before |-> linker]
        /\ linker' = LinkerAfterEstimate(linker)
        /\ \E stage \in (IF linker.link_type = "link_only"
                         THEN LinkOnlySamples(linker, target_rows)
                         ELSE DedupeSamples(linker, target_rows)) :
             \E res \in { estimate_u_values(linker, settings, target_rows, stage,
                                            repartition_after_blocking) } :
                /\ ret' = res
                /\ settings' = res.settings_after
        /\ UNCHANGED <<comparison, train_args, session, outcome, ntrain, params_vars>>

NextEstimate == CallEstimateUValues

SpecEstimate == InitEstimate /\ [][NextEstimate]_vars

-----------------------------------------------------------------------------
(* Configuring comparisons as a state machine: the caller creates a        *)
(* comparison and configures it with lists of probabilities.               *)

MaxThresholds == 3

\* [1], [1, 2], [1, 2, 3]
ThresholdLists == { [i \in 1..n |-> i] : n \in 1..MaxThresholds }

\* lists of equal probabilities, of up to one probability more than the
\* most levels a creator has
MProbabilityLists ==
    { [i \in 1..n |-> v] : n \in 1..(MaxThresholds + 3), v \in {10, 40} }

UProbabilityLists ==
    { [i \in 1..n |-> 60] : n \in 1..(MaxThresholds + 3) }

InitConfigure ==
    /\ linker = NoLinker
    /\ call = NoCall
    /\ ret = NoRet
    /\ settings = InitialSettings
    /\ train_args = NoTrainArgs
    /\ session = NoSession
    /\ outcome = NoOutcome
    /\ ntrain = 0
    /\ params_obj = NoParams
    /\ param_dict = NoDict
    /\ loaded = NoParams
    /\ comparison = NoComparison

\* cl.ExactMatch("col") or cl.LevenshteinAtThresholds("col", thresholds)
CreateComparison ==
    /\ call = NoCall
    /\ comparison' \in {ExactMatch}
                         \cup {LevenshteinAtThresholds(t) : t \in ThresholdLists}
    /\ UNCHANGED <<linker, analyser_vars, training_vars, params_vars>>

\* comparison.configure(...): a ValueError leaves the comparison as it was
Configure ==
    \E m_probabilities \in MProbabilityLists \cup {Unsupplied},
       u_probabilities \in UProbabilityLists \cup {Unsupplied} :
        /\ comparison.exists
        /\ call = NoCall
        /\ call' = [op |-> "configure", m_probabilities |-> m_probabilities,
                    u_probabilities |-> u_probabilities,
                    comparison_before |-> comparison]
        /\ \E res \in {configure(comparison, m_probabilities, u_probabilities)} :
              /\ ret' = [status |-> res.status,
                         error |-> IF res.status = "ok" THEN "" ELSE res.error]
              /\ comparison' = res.comparison
        /\ UNCHANGED <<linker, training_vars, params_vars>>

\* the caller has seen the outcome of configure
ConfigureReturns ==
    /\ call.op = "configure"
    /\ call' = NoCall
    /\ ret' = NoRet
    /\ UNCHANGED <<linker, comparison, training_vars, params_vars>>

NextConfigure == CreateComparison \/ Configure \/ ConfigureReturns

SpecConfigure == InitConfigure /\ [][NextConfigure]_vars

-----------------------------------------------------------------------------
(* Properties of the cost analyser *)

CumulativeReturned == call.op = "cumulative" /\ ret.status = "ok"

CalledRules == brs_as_objs(linker, call.blocking_rules)

\* the candidate pairs of the linker's data, as index pairs of the
\* concatenated table
CandidatePairs ==
    UNION { {p \in (1..Len(concat)) \X (1..Len(concat)) :
               sql_gen_where_condition(linker.link_type, concat[p[1]], concat[p[2]])} :
            concat \in {compute_df_concat(linker)} }

PairSatisfies(p, br) ==
    LET concat == compute_df_concat(linker)
    IN  RuleSatisfied(br, concat[p[1]], concat[p[2]])

BlockedAllRules ==
    CHOOSE blocked \in
        { block_using_rules(concat, rules, linker.link_type) :
            concat \in {compute_df_concat(linker)}, rules \in {CalledRules} } : TRUE

RowCountsOf(records) == [i \in DOMAIN records |-> records[i].row_count]

\* C1: the row_count values of the returned records sum to the number of
\* rows produced by blocking with all the rules together, and with
\* output_chart that total is the last record's cumulative_rows.
C1_RowCountsSumToBlockedTotal ==
    CumulativeReturned =>
        \A total \in {Cardinality(BlockedAllRules)} :
            /\ SeqSum(RowCountsOf(ret.records)) = total
            /\ call.output_chart =>
                 ret.records[Len(ret.records)].cumulative_rows = total

C1_Witness ==
    /\ CumulativeReturned
    /\ call.output_chart
    /\ Len(ret.records) = 3
    /\ Cardinality(BlockedAllRules) = 3
    /\ \E i, j \in DOMAIN ret.records :
          i # j /\ ret.records[i].row_count > 0 /\ ret.records[j].row_count > 0

\* C2: every candidate pair is counted exactly once, under the lowest-index
\* rule it satisfies: a rule's row_count is the number of candidate pairs
\* that satisfy it and no earlier rule; pairs satisfying no rule are in no
\* count.
C2_PairCountedUnderFirstRule ==
    CumulativeReturned =>
        \A concat \in {compute_df_concat(linker)}, rules \in {CalledRules},
           pairs \in {CandidatePairs} :
            LET Satisfies(p, i) ==
                    RuleSatisfied(rules[i], concat[p[1]], concat[p[2]])
            IN  /\ DOMAIN ret.records = DOMAIN rules
                /\ \A i \in DOMAIN ret.records :
                      ret.records[i].row_count =
                         Cardinality({p \in pairs :
                                        /\ Satisfies(p, i)
                                        /\ \A j \in 1..(i - 1) :
                                              ~Satisfies(p, j)})
                /\ SeqSum(RowCountsOf(ret.records)) =
                      Cardinality({p \in pairs :
                                     \E i \in DOMAIN rules : Satisfies(p, i)})

C2_Witness ==
    /\ CumulativeReturned
    /\ Len(CalledRules) >= 2
    /\ \E p \in CandidatePairs :
          /\ PairSatisfies(p, CalledRules[1])
          /\ PairSatisfies(p, CalledRules[2])
    /\ \E p \in CandidatePairs :
          \A i \in DOMAIN CalledRules : ~PairSatisfies(p, CalledRules[i])
    /\ ret.records[1].row_count > 0

\* C3: one record per input rule, in input order; a rule whose match_key is
\* absent from the grouped counts has row_count 0 at its own index, every
\* other rule has the count of its own match_key.
C3_ZeroRowRulesBackFilled ==
    CumulativeReturned =>
        \A blocked \in {BlockedAllRules}, rules \in {CalledRules} :
            \A keys \in {GroupedMatchKeys(blocked, Len(rules))} :
                /\ Len(ret.records) = Len(rules)
                /\ \A i \in DOMAIN rules :
                      /\ ret.records[i].rule = rules[i]
                      /\ (\A j \in DOMAIN keys : keys[j] # i - 1)
                            => ret.records[i].row_count = 0
                      /\ (\E j \in DOMAIN keys : keys[j] = i - 1)
                            => ret.records[i].row_count =
                                 Cardinality({b \in blocked :
                                                b.match_key = i - 1})

C3_Witness ==
    /\ CumulativeReturned
    /\ Len(ret.records) = 3
    /\ ret.records[1].row_count = 0
    /\ ret.records[2].row_count = 0
    /\ ret.records[3].row_count > 0

\* C4: with output_chart, cumulative_rows is non-decreasing and the
\* reduction ratio is non-increasing along the rule sequence, the cartesian
\* size being the same in every record.
C4_CumulativeRowsMonotone ==
    (CumulativeReturned /\ call.output_chart) =>
        \A i \in 1..(Len(ret.records) - 1) :
            /\ ret.records[i].cumulative_rows <= ret.records[i + 1].cumulative_rows
            /\ ret.records[i].reduction_ratio >= ret.records[i + 1].reduction_ratio
            /\ ret.records[i].cartesian = ret.records[i + 1].cartesian

C4_Witness ==
    /\ CumulativeReturned
    /\ call.output_chart
    /\ Len(ret.records) = 3
    /\ ret.records[1].cumulative_rows > 0
    /\ ret.records[1].cumulative_rows < ret.records[2].cumulative_rows
    /\ ret.records[2].cumulative_rows < ret.records[3].cumulative_rows
    /\ ret.records[1].reduction_ratio > ret.records[2].reduction_ratio
    /\ ret.records[2].reduction_ratio > ret.records[3].reduction_ratio

\* the literal equi-join of the left and right input tables on the rule's
\* key pairs
LiteralEquiJoin(br) ==
    LET tl == input_table_l(linker)
        tr == input_table_r(linker)
    IN  {p \in (DOMAIN tl) \X (DOMAIN tr) : EquiJoinAgrees(br, tl[p[1]], tr[p[2]])}

PreFilterCalledWithKeys ==
    call.op = "pre_filter" /\ equi_join_conditions(call.blocking_rule) # <<>>

\* C5: for a rule with an equi-join key pair the function returns the size
\* of the literal equi-join of the left and right input tables on the
\* rule's keys.
C5_PreFilterCountIsExact ==
    PreFilterCalledWithKeys =>
        /\ ret.status = "ok"
        /\ ret.value = Cardinality(LiteralEquiJoin(call.blocking_rule))

PreFilterCalledWithoutKeys ==
    call.op = "pre_filter" /\ equi_join_conditions(call.blocking_rule) = <<>>

TableSizes == [i \in DOMAIN linker.input_tables |-> Len(linker.input_tables[i])]

\* C6: for a rule without equi-join key pair the function returns N_l*N_r
\* in a two-dataset link-only job and N*N otherwise, and runs the single
\* total stage only.
C6_NoKeyRuleCountsProduct ==
    PreFilterCalledWithoutKeys =>
        /\ ret.status = "ok"
        /\ ret.value =
             IF linker.link_type = "link_only" /\ Len(linker.input_tables) = 2
             THEN TableSizes[1] * TableSizes[2]
             ELSE SeqSum(TableSizes) * SeqSum(TableSizes)
        /\ ret.stages = << "__splink__total_of_block_counts" >>

C6_Witness ==
    /\ PreFilterCalledWithoutKeys
    /\ linker.link_type = "link_only"
    /\ ret.status = "ok"
    /\ TableSizes = <<1, 2>>
    /\ ret.value = 2

-----------------------------------------------------------------------------
(* Properties of training sessions *)

TrainCalled == outcome.op = "_train"

TrainSucceeded == TrainCalled /\ outcome.status = "ok"

SessionBefore == outcome.session_before

BothFixed(sess) ==
    sess.training_fix_m_probabilities /\ sess.training_fix_u_probabilities

\* C7: a session with fix_m_probabilities and fix_u_probabilities both true
\* fails in _train with ValueError before any query is sent, without the
\* EM engine being invoked and with the canonical model unchanged, whether
\* or not comparison vectors are passed to _train.
C7_BothFixedAlwaysFails ==
    (TrainCalled /\ BothFixed(SessionBefore)) =>
        /\ outcome.status = "raised"
        /\ outcome.error = "ValueError"
        /\ outcome.queries = <<>>
        /\ ~outcome.em_invoked
        /\ settings = outcome.settings_before

\* the comparison vector table that reached the zero-pair check of the
\* last _train call had no rows
TrainedOnNoPairs ==
    /\ TrainCalled
    /\ ~(outcome.cvv_arg = "none" /\ BothFixed(SessionBefore))
    /\ \/ outcome.cvv_arg = "empty"
       \/ \A p \in CandidatePairs :
             ~PairSatisfies(p, SessionBefore.blocking_rule_for_training)

\* C8: when the training blocking rule yields no pair, _train raises
\* EMTrainingException with the rule text in its message, the EM engine is
\* not invoked, blocking is not run again, and the session (its history
\* included) and the canonical model are left as they were.
C8_NoPairsRaisesNamingRule ==
    TrainedOnNoPairs =>
        /\ outcome.status = "raised"
        /\ outcome.error = "EMTrainingException"
        /\ \E i \in DOMAIN outcome.message :
              outcome.message[i] = SessionBefore.blocking_rule_for_training
        /\ ~outcome.em_invoked
        /\ Len(SelectSeq(outcome.queries,
                         LAMBDA q : q = "__splink__df_comparison_vectors")) <= 1
        /\ session = SessionBefore
        /\ SessionBefore.core_model_settings_history = <<>>
              => session.core_model_settings_history = <<>>
        /\ settings = outcome.settings_before

C8_Witness ==
    /\ TrainedOnNoPairs
    /\ outcome.cvv_arg = "none"
    /\ outcome.status = "raised"
    /\ SessionBefore.blocking_rule_for_training = RuleFalse
    /\ outcome.message[2] = RuleFalse
    /\ session.core_model_settings_history = <<>>

\* the canonical model without its trained-value histories
WithoutTrainedValues(s) ==
    [s EXCEPT !.comparisons =
       [i \in DOMAIN @ |->
          [@[i] EXCEPT !.comparison_levels =
             [j \in DOMAIN @ |->
                [@[j] EXCEPT !.trained_m_probabilities = <<>>,
                             !.trained_u_probabilities = <<>>]]]]]

\* C9: constructing a session and every failing exit of __init__ and _train
\* leave the canonical settings object as it was (comparisons, m and u
\* values, trained-value histories, prior); deactivation and the adjusted
\* prior are in the session's copy only; a successful _train changes
\* nothing of it but the trained-value histories of the fold-back.
C9_CanonicalUnchangedUntilFoldBack ==
    /\ (outcome.op = "__init__" \/ (TrainCalled /\ outcome.status = "raised"))
          => settings = outcome.settings_before
    /\ TrainSucceeded
          => WithoutTrainedValues(settings)
                = WithoutTrainedValues(outcome.settings_before)
    /\ WithoutTrainedValues(settings) = InitialSettings

C9_Witness ==
    /\ outcome.op = "__init__"
    /\ outcome.status = "ok"
    /\ ntrain = 1
    /\ settings = outcome.settings_before
    /\ Len(session.core_model_settings.comparisons) < Len(settings.comparisons)
    /\ session.core_model_settings.probability_two_random_records_match
          # settings.probability_two_random_records_match

CanonicalLevel(s, name, value) ==
    LET cc == CHOOSE c \in SeqToSet(s.comparisons) : c.output_column_name = name
    IN  LevelWithValue(cc, value)

LastSnapshot == session.core_model_settings_history[
                    Len(session.core_model_settings_history)]

\* the list received exactly one new entry: the value with the provenance
Received(before, after, value) ==
    after = Append(before,
                   [probability |-> value,
                    description |-> "EM, blocked on: "
                        \o session.blocking_rule_for_training])

MReceived(cc, cl) ==
    Received(CanonicalLevel(outcome.settings_before, cc.output_column_name,
                            cl.comparison_vector_value).trained_m_probabilities,
             CanonicalLevel(settings, cc.output_column_name,
                            cl.comparison_vector_value).trained_m_probabilities,
             cl.m_probability)

UReceived(cc, cl) ==
    Received(CanonicalLevel(outcome.settings_before, cc.output_column_name,
                            cl.comparison_vector_value).trained_u_probabilities,
             CanonicalLevel(settings, cc.output_column_name,
                            cl.comparison_vector_value).trained_u_probabilities,
             cl.u_probability)

\* C10 as stated: after a successful _train every non-null level of every
\* active comparison has received both the m and the u value of the last
\* snapshot in the canonical model, with the provenance string.
C10_FoldBackWritesMAndU ==
    TrainSucceeded =>
        \A i \in DOMAIN LastSnapshot.comparisons :
            LET cc == LastSnapshot.comparisons[i]
                cls == comparison_levels_excluding_null(cc)
            IN  \A j \in DOMAIN cls :
                   MReceived(cc, cls[j]) /\ UReceived(cc, cls[j])

\* C10 amended: after a successful _train every non-null level of every
\* active comparison has received, in the canonical level with the same
\* output column name and comparison vector value, the last snapshot's m
\* value unless m is fixed and the last snapshot's u value unless u is
\* fixed, each with the provenance "EM, blocked on: <rule>".
C10_FoldBackWritesNonFixedOfLastSnapshot ==
    TrainSucceeded =>
        \A i \in DOMAIN LastSnapshot.comparisons :
            LET cc == LastSnapshot.comparisons[i]
                cls == comparison_levels_excluding_null(cc)
            IN  \A j \in DOMAIN cls :
                   /\ ~session.training_fix_m_probabilities
                         => MReceived(cc, cls[j])
                   /\ ~session.training_fix_u_probabilities
                         => UReceived(cc, cls[j])

\* some level's u value in the last snapshot differs from its value in
\* every earlier snapshot, and was folded back while m is fixed
C10_Witness ==
    /\ TrainSucceeded
    /\ session.training_fix_m_probabilities
    /\ ~session.training_fix_u_probabilities
    /\ Len(session.core_model_settings_history) >= 3
    /\ \E i \in DOMAIN LastSnapshot.comparisons :
          \E j \in DOMAIN LastSnapshot.comparisons[i].comparison_levels :
             LET cl == LastSnapshot.comparisons[i].comparison_levels[j]
             IN  /\ ~cl.is_null_level
                 /\ cl.u_probability # LEVEL_NOT_OBSERVED
                 /\ UReceived(LastSnapshot.comparisons[i], cl)
                 /\ \A k \in 1..(Len(session.core_model_settings_history) - 1) :
                       session.core_model_settings_history[k]
                          .comparisons[i].comparison_levels[j].u_probability
                          # cl.u_probability

\* the entry the fold-back of the last _train appended to a trained-value
\* list of the canonical model
LastRecorded(trained) == trained[Len(trained)].probability

RecordedM(cc, cl) ==
    LastRecorded(CanonicalLevel(settings, cc.output_column_name,
                                cl.comparison_vector_value).trained_m_probabilities)

RecordedU(cc, cl) ==
    LastRecorded(CanonicalLevel(settings, cc.output_column_name,
                                cl.comparison_vector_value).trained_u_probabilities)

\* C11: after a successful _train, for every non-null level of the last
\* snapshot and for each side that is not fixed, the value recorded in the
\* canonical model is the "not observed" sentinel exactly when the
\* snapshot's value is the sentinel, and otherwise it is the snapshot's
\* numeric value; m and u are decided separately.
C11_NotObservedRecordedAsSentinel ==
    TrainSucceeded =>
        \A i \in DOMAIN LastSnapshot.comparisons :
            LET cc == LastSnapshot.comparisons[i]
                cls == comparison_levels_excluding_null(cc)
            IN  \A j \in DOMAIN cls :
                   /\ ~session.training_fix_m_probabilities =>
                         /\ (cls[j].m_probability = LEVEL_NOT_OBSERVED)
                               <=> (RecordedM(cc, cls[j]) = LEVEL_NOT_OBSERVED)
                         /\ cls[j].m_probability # LEVEL_NOT_OBSERVED
                               => RecordedM(cc, cls[j]) = cls[j].m_probability
                   /\ ~session.training_fix_u_probabilities =>
                         /\ (cls[j].u_probability = LEVEL_NOT_OBSERVED)
                               <=> (RecordedU(cc, cls[j]) = LEVEL_NOT_OBSERVED)
                         /\ cls[j].u_probability # LEVEL_NOT_OBSERVED
                               => RecordedU(cc, cls[j]) = cls[j].u_probability

\* a level of the last snapshot was not observed on the m side while its u
\* side is numeric and fixed, and another level was recorded numerically
C11_Witness ==
    /\ TrainSucceeded
    /\ ~session.training_fix_m_probabilities
    /\ \E i \in DOMAIN LastSnapshot.comparisons :
          LET cc == LastSnapshot.comparisons[i]
              cls == comparison_levels_excluding_null(cc)
          IN  /\ \E j \in DOMAIN cls :
                    /\ cls[j].m_probability = LEVEL_NOT_OBSERVED
                    /\ cls[j].u_probability # LEVEL_NOT_OBSERVED
                    /\ RecordedM(cc, cls[j]) = LEVEL_NOT_OBSERVED
              /\ \E j \in DOMAIN cls :
                    /\ cls[j].m_probability # LEVEL_NOT_OBSERVED
                    /\ RecordedM(cc, cls[j]) = cls[j].m_probability

-----------------------------------------------------------------------------
(* Properties of parameter histories *)

LoadCalled == call.op = "load_params_from_dict"

\* C12: load_params_from_dict raises ValueError exactly when the key set of
\* the payload is not {current_params, historical_params, settings,
\* settings_original}: a key missing or an extra key rejects, the four keys
\* alone are accepted and give a Params object.
C12_LoadRejectsOtherKeySets ==
    LoadCalled =>
        IF DOMAIN param_dict =
             {"current_params", "historical_params", "settings",
              "settings_original"}
        THEN ret.status = "ok" /\ loaded.exists
        ELSE ret.status = "raised" /\ ret.error = "ValueError" /\ ~loaded.exists

\* a payload with the four keys and one more was rejected
C12_Witness ==
    /\ LoadCalled
    /\ ret.status = "raised"
    /\ Cardinality(DOMAIN param_dict) = 5
    /\ {"current_params", "historical_params", "settings", "settings_original"}
          \subseteq DOMAIN param_dict

\* the payload is the export of the caller's Params object as it is now
LoadedOwnExport ==
    LoadCalled /\ params_obj.exists /\ param_dict = to_dict(params_obj)

\* C13: loading what _to_dict exported gives an object with the same
\* current params, the same historical params (length, order, values) and
\* the same original settings as the exported object.
C13_ExportLoadRoundTrip ==
    LoadedOwnExport =>
        /\ ret.status = "ok"
        /\ loaded.params = params_obj.params
        /\ loaded.param_history = params_obj.param_history
        /\ loaded.settings_original = params_obj.settings_original

\* an object with updated parameters and a history of two different
\* entries was exported and loaded
C13_Witness ==
    /\ LoadedOwnExport
    /\ ret.status = "ok"
    /\ params_obj.params # params_obj.settings
    /\ Len(params_obj.param_history) = 2
    /\ params_obj.param_history[1] # params_obj.param_history[2]
    /\ loaded.param_history = params_obj.param_history

-----------------------------------------------------------------------------
(* Properties of the u estimation                                          *)

EstimateCalled == call.op = "estimate_u_values" /\ ret.status = "ok"

EstimatedByRowSample == EstimateCalled /\ linker.link_type # "link_only"

\* C14: in dedupe_only and link_and_dedupe mode, with target T and N input
\* rows, the derived sample row count n inverts T = n(n-1)/2 up to the
\* resolution of n, and n <= N whenever N(N-1)/2 >= T; when n exceeds N the
\* sample size is N, the proportion is exactly 1.0 and the sample holds every
\* row; the proportion never exceeds 1.0.
C14_SampleSizeInvertsTarget ==
    EstimatedByRowSample =>
        \A st \in {ret.stage} :
            LET n == st.derived
                N == st.count_rows
                T == call.target_rows
            IN  /\ n * (n - Scale) <= 2 * T * Scale * Scale
                /\ 2 * T * Scale * Scale < (n + 1) * (n + 1 - Scale)
                /\ Comb2(N) >= T => n <= N * Scale
                /\ n > N * Scale =>
                      /\ st.sample_size = N * Scale
                      /\ st.proportion = Micro
                      /\ Cardinality(st.input_dataframes[1]) = N
                /\ st.sample_size <= N * Scale
                /\ st.proportion <= Micro

\* a target above N(N-1)/2: the derived row count exceeds the table
C14_Witness ==
    /\ EstimatedByRowSample
    /\ ret.stage.derived > ret.stage.count_rows * Scale
    /\ Comb2(ret.stage.count_rows) < call.target_rows

EstimatedLinkOnly == EstimateCalled /\ linker.link_type = "link_only"

\* every left row paired with every right row, as positions of the
\* concatenated table
FullCross(count_l, count_r) ==
    { [l |-> i, r |-> count_l + j] : i \in 1..count_l, j \in 1..count_r }

\* C15: in link_only mode, with target T and tables of N_l and N_r rows:
\* when T >= N_l * N_r no random pair is drawn, no blocking rule is set and
\* the compared pairs are the full cross of N_l * N_r pairs; when
\* T < N_l * N_r the row pairs are sampled, the only blocking rule is the
\* equality of sample_id and the compared pairs are the sampled row pairs.
C15_LinkOnlyFullCrossOrSampled ==
    EstimatedLinkOnly =>
        \A st \in {ret.stage} :
            LET count_l == Len(linker.input_tables[1])
                count_r == Len(linker.input_tables[2])
                drawn == \E i \in DOMAIN ret.tables :
                            ret.tables[i].table
                              = "__splink__df_concat_sampled_row_pairs"
            IN  IF call.target_rows >= count_l * count_r
                THEN /\ ~st.sample_tables_on_link_only
                     /\ st.sampled_row_pairs = {}
                     /\ ~drawn
                     /\ ret.blocking_rules = <<>>
                     /\ ret.blocked = FullCross(count_l, count_r)
                     /\ Cardinality(ret.blocked) = count_l * count_r
                ELSE /\ st.sample_tables_on_link_only
                     /\ drawn
                     /\ st.number_of_rows_to_sample > 0
                     /\ ret.blocking_rules = << RuleSampleId >>
                     /\ ret.blocked =
                          { [l |-> p.row_l, r |-> count_l + p.row_r] :
                            p \in st.sampled_row_pairs }
                     /\ Cardinality(ret.blocked)
                          = Cardinality(st.sampled_row_pairs)

\* a target of at least N_l * N_r on tables with several pairs
C15_Witness ==
    /\ EstimatedLinkOnly
    /\ call.target_rows >= ret.stage.total_rows
    /\ ret.stage.total_rows >= 2
    /\ Cardinality(ret.blocked) = ret.stage.total_rows

\* the canonical level before the call that corresponds to a level after it
LevelBefore(i, j) == call.settings_before.comparisons[i].comparison_levels[j]

\* C16: after estimate_u_values the canonical model differs from the model
\* before the call only in the trained u values: every non-null level has
\* one more entry, described as "estimate u by random sampling", and a null
\* level has none; no m value is written, the prior and every other
\* attribute of the model are as before, and the parameter record named
\* _probability_two_random_records_match is not among the merged records.
C16_OnlyUValuesAppended ==
    EstimateCalled =>
        /\ settings.probability_two_random_records_match
             = call.settings_before.probability_two_random_records_match
        /\ DOMAIN settings.comparisons = DOMAIN call.settings_before.comparisons
        /\ \A i \in DOMAIN settings.comparisons :
             \A cc \in {settings.comparisons[i]} :
                /\ [cc EXCEPT !.comparison_levels = <<>>]
                     = [call.settings_before.comparisons[i]
                          EXCEPT !.comparison_levels = <<>>]
                /\ DOMAIN cc.comparison_levels
                     = DOMAIN call.settings_before.comparisons[i].comparison_levels
                /\ \A j \in DOMAIN cc.comparison_levels :
                     \A cl \in {cc.comparison_levels[j]} :
                        /\ [cl EXCEPT !.trained_u_probabilities = <<>>]
                             = [LevelBefore(i, j)
                                  EXCEPT !.trained_u_probabilities = <<>>]
                        /\ IF cl.is_null_level
                           THEN cl.trained_u_probabilities
                                  = LevelBefore(i, j).trained_u_probabilities
                           ELSE /\ Len(cl.trained_u_probabilities)
                                     = Len(LevelBefore(i, j).trained_u_probabilities) + 1
                                /\ SubSeq(cl.trained_u_probabilities, 1,
                                          Len(cl.trained_u_probabilities) - 1)
                                     = LevelBefore(i, j).trained_u_probabilities
                                /\ cl.trained_u_probabilities[
                                       Len(cl.trained_u_probabilities)].description
                                     = "estimate u by random sampling"
        /\ \A r \in ret.m_u_records :
             r.output_column_name # "_probability_two_random_records_match"

\* a run on a model that already holds trained values, in which a level
\* received a numeric u value
C16_Witness ==
    /\ EstimateCalled
    /\ call.settings_before # InitialSettings
    /\ Cardinality(ret.blocked) >= 2
    /\ \E i \in DOMAIN settings.comparisons :
         \E j \in DOMAIN settings.comparisons[i].comparison_levels :
            LET cl == settings.comparisons[i].comparison_levels[j]
            IN  /\ ~cl.is_null_level
                /\ Len(cl.trained_u_probabilities) = 2
                /\ cl.trained_u_probabilities[2].probability \in 1..(Scale - 1)

-----------------------------------------------------------------------------
(* Staged tables                                                           *)

\* the staged tables of the cost analyser, the u estimator and a training
\* session
StagedTables ==
    { "__splink__cartesian_product", "__splink__df_count_cumulative_blocks",
      "__splink__total_of_block_counts",
      "__splink__df_concat_count", "__splink__df_concat_counts_lr",
      "__splink__df_concat_sampled_row_pairs",
      "__splink__df_concat_with_tf_sample",
      "__splink__df_concat_with_tf_left_sample",
      "__splink__df_concat_with_tf_right_sample",
      "__splink__m_u_counts", "__splink__df_comparison_vectors" }

\* what the operation that has just ended did to staged tables
TableEvents ==
    IF call.op \in {"cumulative", "pre_filter", "estimate_u_values"}
    THEN ret.tables
    ELSE IF outcome.op = "_train" THEN SessionTables(outcome)
    ELSE <<>>

\* C17: when an operation ends, by return or by exception, every staged
\* table it created has been dropped, after it was read and with no use of
\* it after the drop.
C17_StagedTablesDroppedAfterRead ==
    \A ev \in {TableEvents} :
        \A i \in DOMAIN ev :
            (ev[i].op = "create" /\ ev[i].table \in StagedTables) =>
                \E j \in DOMAIN ev :
                    /\ j > i
                    /\ ev[j] = Ev("drop", ev[i].table)
                    /\ \E k \in (i + 1)..(j - 1) :
                          ev[k] = Ev("read", ev[i].table)
                    /\ \A k \in DOMAIN ev :
                          k > j => ev[k].table # ev[i].table

-----------------------------------------------------------------------------
(* The caller's linker across an analyser call                             *)

\* C18: after cumulative_comparisons_generated_by_blocking_rules, called
\* with or without a rule list, the caller's linker and settings are as they
\* were before the call: the blocking rules for predictions, the two
\* retain-columns flags and the tf adjustment column of every level.
C18_AnalyserLeavesLinkerUnchanged ==
    call.op = "cumulative" =>
        \A before \in {call.linker_before} :
            /\ linker.blocking_rules_to_generate_predictions
                 = before.blocking_rules_to_generate_predictions
            /\ linker.retain_matching_columns = before.retain_matching_columns
            /\ linker.retain_intermediate_calculation_columns
                 = before.retain_intermediate_calculation_columns
            /\ linker.tf_adjustment_column = before.tf_adjustment_column
            /\ linker = before
            /\ settings = InitialSettings

\* a call with an explicit rule list on a linker whose settings retain
\* columns and adjust a level for term frequency
C18_Witness ==
    /\ CumulativeReturned
    /\ call.blocking_rules # <<>>
    /\ call.linker_before.retain_matching_columns
    /\ call.linker_before.retain_intermediate_calculation_columns
    /\ \E i \in DOMAIN call.linker_before.tf_adjustment_column :
         \E j \in DOMAIN call.linker_before.tf_adjustment_column[i] :
            call.linker_before.tf_adjustment_column[i][j] # NoTfColumn

-----------------------------------------------------------------------------
(* Properties of configure                                                 *)

ConfigureCalled == call.op = "configure"

Supplied(probabilities) == probabilities # Unsupplied

\* C19: configure with a list of m_probabilities or of u_probabilities
\* raises ValueError when the length of a supplied list differs from the
\* number of non-null levels of the comparison, with too many as with too
\* few probabilities, and leaves the comparison as it was; when every
\* supplied list has that length the call succeeds and the comparison holds
\* the lists.
C19_ProbabilityListLengthChecked ==
    ConfigureCalled =>
        \A before \in {call.comparison_before} :
            LET n == Len(before.thresholds) + 2
                Wrong(probabilities) ==
                    Supplied(probabilities) /\ Len(probabilities) # n
            IN  IF Wrong(call.m_probabilities) \/ Wrong(call.u_probabilities)
                THEN /\ ret.status = "raised"
                     /\ ret.error = "ValueError"
                     /\ comparison = before
                ELSE /\ ret.status = "ok"
                     /\ Supplied(call.m_probabilities)
                          => comparison.m_probabilities = call.m_probabilities
                     /\ Supplied(call.u_probabilities)
                          => comparison.u_probabilities = call.u_probabilities

\* cl.ExactMatch("col").configure(m_probabilities=[...]) with three
\* probabilities for two levels
C19_Witness ==
    /\ ConfigureCalled
    /\ call.comparison_before.creator = "ExactMatch"
    /\ Len(call.m_probabilities) = 3
    /\ call.u_probabilities = Unsupplied
    /\ ret.status = "raised"

-----------------------------------------------------------------------------
(* The life cycle of a training session                                    *)

\* _train has completed on the session: it holds the history of an EM run
Trained(sess) == sess.exists /\ sess.core_model_settings_history # <<>>

\* C20: trained is terminal: a _train call on a session on which _train
\* has already completed does not run EM, leaves the history and the
\* parameters of the session as they are and writes nothing to the
\* canonical model.
C20_TrainedIsTerminal ==
    [][ (Trained(session) /\ outcome'.op = "_train" /\ ntrain' = ntrain + 1)
          => /\ ~outcome'.em_invoked
             /\ session' = session
             /\ settings' = settings ]_vars

-----------------------------------------------------------------------------
(* Properties of session construction: deactivated comparisons             *)

\* the names of a sequence of comparisons
OutputColumnNames(comparisons) ==
    [i \in DOMAIN comparisons |-> comparisons[i].output_column_name]

\* the comparisons whose input columns meet the columns of the rule
OverlapRule(br, comparisons) ==
    SelectSeq(comparisons,
              LAMBDA cc : cc.input_columns \cap get_columns_used_from_sql(br) # {})

\* C21: at construction, without a deactivation list the deactivated
\* comparisons are exactly those whose input columns meet the columns of the
\* training blocking rule; with an explicit list of any length the
\* deactivated set is exactly that list and nothing is deactivated
\* automatically; the comparisons kept for estimation are the model's
\* comparisons outside the deactivated set, in their original order.
C21_ExplicitListTakesPrecedence ==
    session.exists =>
        LET arg == train_args.comparisons_to_deactivate
            br == session.blocking_rule_for_training
            deactivated == session.comparisons_that_cannot_be_estimated
            kept == SelectSeq(settings.comparisons,
                       LAMBDA cc : cc.output_column_name
                                      \notin SeqToSet(deactivated))
        IN  /\ ~arg.given =>
                  deactivated = OutputColumnNames(OverlapRule(br, settings.comparisons))
            /\ arg.given => deactivated = arg.names
            /\ session.comparisons_that_can_be_estimated = OutputColumnNames(kept)
            /\ OutputColumnNames(session.core_model_settings.comparisons)
                  = OutputColumnNames(kept)

-----------------------------------------------------------------------------
(* Properties of fixed parameters *)

History == session.core_model_settings_history

\* the trained m (side "m") or u values of every level of the canonical
\* model, comparison by comparison
TrainedLists(s, side) ==
    [i \in DOMAIN s.comparisons |->
       [j \in DOMAIN s.comparisons[i].comparison_levels |->
          IF side = "m"
          THEN s.comparisons[i].comparison_levels[j].trained_m_probabilities
          ELSE s.comparisons[i].comparison_levels[j].trained_u_probabilities]]

\* the m (side "m") or u values of every level of a snapshot
SnapshotValues(cms, side) ==
    [i \in DOMAIN cms.comparisons |->
       [j \in DOMAIN cms.comparisons[i].comparison_levels |->
          IF side = "m"
          THEN cms.comparisons[i].comparison_levels[j].m_probability
          ELSE cms.comparisons[i].comparison_levels[j].u_probability]]

\* C22: a fixed parameter is neither estimated again nor written back: with
\* fix_m_probabilities a successful _train appends no trained m value to any
\* canonical level, with fix_u_probabilities no trained u value, while the
\* side that is not fixed is written for every non-null level of every
\* active comparison; the fixed values are the same in every snapshot of
\* the history.
C22_FixedParametersCarriedThrough ==
    TrainSucceeded =>
        /\ session.training_fix_m_probabilities =>
              /\ TrainedLists(settings, "m")
                    = TrainedLists(outcome.settings_before, "m")
              /\ \A k \in DOMAIN History :
                    SnapshotValues(History[k], "m") = SnapshotValues(History[1], "m")
        /\ session.training_fix_u_probabilities =>
              /\ TrainedLists(settings, "u")
                    = TrainedLists(outcome.settings_before, "u")
              /\ \A k \in DOMAIN History :
                    SnapshotValues(History[k], "u") = SnapshotValues(History[1], "u")
        /\ session.training_fix_probability_two_random_records_match =>
              \A k \in DOMAIN History :
                 History[k].probability_two_random_records_match
                    = History[1].probability_two_random_records_match
        /\ \A i \in DOMAIN LastSnapshot.comparisons :
              LET cc == LastSnapshot.comparisons[i]
                  cls == comparison_levels_excluding_null(cc)
              IN  \A j \in DOMAIN cls :
                     /\ ~session.training_fix_m_probabilities
                           => MReceived(cc, cls[j])
                     /\ ~session.training_fix_u_probabilities
                           => UReceived(cc, cls[j])

\* u is fixed and m is not: over at least two iterations the m values moved
\* and were written back, the u values stayed and no canonical level holds
\* a trained u value
C22_Witness ==
    /\ TrainSucceeded
    /\ session.training_fix_u_probabilities
    /\ ~session.training_fix_m_probabilities
    /\ Len(History) >= 3
    /\ SnapshotValues(LastSnapshot, "m") # SnapshotValues(History[1], "m")
    /\ SnapshotValues(LastSnapshot, "u") = SnapshotValues(History[1], "u")
    /\ TrainedLists(settings, "m") # TrainedLists(outcome.settings_before, "m")
    /\ \A i \in DOMAIN settings.comparisons :
          \A j \in DOMAIN settings.comparisons[i].comparison_levels :
             TrainedLists(settings, "u")[i][j] = <<>>

-----------------------------------------------------------------------------
(* Properties of the convergence test *)

RECURSIVE SeqMax(_)
SeqMax(xs) ==
    IF xs = <<>> THEN 0
    ELSE LET m == SeqMax(Tail(xs))
         IN  IF Head(xs) > m THEN Head(xs) ELSE m

\* the largest absolute difference between two snapshots over every m
\* value, every u value and the prior
MaxChange(p_latest, p_previous) ==
    SeqMax(<< Abs(p_latest.proportion_of_matches
                    - p_previous.proportion_of_matches) >>
           \o [i \in DOMAIN p_latest.m_probabilities |->
                 Abs(p_latest.m_probabilities[i] - p_previous.m_probabilities[i])]
           \o [i \in DOMAIN p_latest.u_probabilities |->
                 Abs(p_latest.u_probabilities[i] - p_previous.u_probabilities[i])])

ConvergenceTested == call.op = "is_converged" /\ ret.status = "ok"

PreviousParams == params_obj.param_history[Len(params_obj.param_history)]

\* C23: is_converged compares the current snapshot with the last entry of
\* the history and reports convergence exactly when the largest absolute
\* difference over every m value, every u value and the prior is below the
\* threshold; a change of the prior alone at or above the threshold
\* prevents convergence.
C23_ConvergedIffMaxChangeBelowThreshold ==
    ConvergenceTested =>
        (ret.value <=> MaxChange(params_obj.params, PreviousParams) < EmConvergence)

-----------------------------------------------------------------------------
(* Properties of the sampled row pairs of a link_only job *)

EstimatedOnSampledPairs ==
    EstimatedLinkOnly /\ ret.stage.sample_tables_on_link_only

\* C24: in the link_only sampling path each surviving (row_l, row_r) pair
\* appears once and carries one sample_id, distinct pairs carry distinct
\* sample_ids, and blocking on l.sample_id = r.sample_id yields exactly one
\* comparison per sampled pair, of left row row_l with right row row_r:
\* never a pair that was not drawn, never the same pair twice, and at most
\* as many comparisons as draws.
C24_OneComparisonPerSampledPair ==
    EstimatedOnSampledPairs =>
        \A pairs \in {ret.stage.sampled_row_pairs} :
            LET count_l == Len(linker.input_tables[1])
            IN  /\ \A p, q \in pairs :
                      (p.row_l = q.row_l /\ p.row_r = q.row_r) => p = q
                /\ \A p, q \in pairs : p.sample_id = q.sample_id => p = q
                /\ ret.blocked_rows =
                      { [l |-> p.row_l, r |-> count_l + p.row_r,
                         sample_id_l |-> p.sample_id,
                         sample_id_r |-> p.sample_id] : p \in pairs }
                /\ \A a, b \in ret.blocked_rows :
                      (a.l = b.l /\ a.r = b.r) => a = b
                /\ Cardinality(ret.blocked_rows) = Cardinality(pairs)
                /\ Cardinality(ret.blocked_rows) <= ret.stage.number_of_rows_to_sample

\* two sampled pairs without a common row: the left row of the one is not
\* compared with the right row of the other
C24_Witness ==
    /\ EstimatedOnSampledPairs
    /\ ret.stage.number_of_rows_to_sample >= 2
    /\ \E p, q \in ret.stage.sampled_row_pairs :
          /\ p.row_l # q.row_l
          /\ p.row_r # q.row_r
          /\ \A b \in ret.blocked_rows :
                ~(b.l = p.row_l
                    /\ b.r = Len(linker.input_tables[1]) + q.row_r)
    /\ Cardinality(ret.blocked_rows) = 2

-----------------------------------------------------------------------------
(* Properties of the blocking-adjusted prior *)

Constructed == outcome.op = "__init__" /\ outcome.status = "ok"

RECURSIVE SeqProduct(_)
SeqProduct(xs) == IF xs = <<>> THEN 1 ELSE Head(xs) * SeqProduct(Tail(xs))

\* C25: the prior of a new session is bayes_to_prob of the canonical prior's
\* Bayes factor multiplied by the Bayes factor m/u of every comparison level
\* that the training blocking rule implies, each once (here: the odds
\* lambda * prod m : (1 - lambda) * prod u, rounded to the resolution of the
\* model); with no implied level it is the canonical prior.
C25_PriorAdjustedByImpliedLevels ==
    Constructed =>
        LET infos == session.comparison_levels_to_reverse_blocking_rule
            lam == settings.probability_two_random_records_match
            adjusted ==
                session.core_model_settings.probability_two_random_records_match
            for == lam * SeqProduct([i \in DOMAIN infos |->
                                       infos[i].level.m_probability])
            against == (Scale - lam)
                         * SeqProduct([i \in DOMAIN infos |->
                                         infos[i].level.u_probability])
        IN  /\ 2 * Abs(adjusted * (for + against) - Scale * for) <= for + against
            /\ infos = <<>> => adjusted = lam

\* a rule that implies the exact match level of two comparisons: the prior
\* of the session is above the prior that one level alone would give
C25_Witness ==
    /\ Constructed
    /\ Len(session.comparison_levels_to_reverse_blocking_rule) = 2
    /\ session.core_model_settings.probability_two_random_records_match
          > bayes_factor_to_prob(
                MultiplyBayesFactors(
                    prob_to_bayes_factor(
                        settings.probability_two_random_records_match),
                    SubSeq(session.comparison_levels_to_reverse_blocking_rule,
                           1, 1)))

-----------------------------------------------------------------------------
(* Properties of the parameter history of a session *)

PriorOf(cms) == cms.probability_two_random_records_match

\* no snapshot of the history has a prior of 0, the one value for which the
\* reciprocal of the report is undefined
PriorsPositive == \A k \in DOMAIN History : PriorOf(History[k]) > 0

\* C26: the history of a session is empty before training and holds one
\* snapshot per iteration after a successful _train, the initial state
\* first: the first snapshot is the model the session held before the run,
\* the session's current model is the last one, and the report of the prior
\* has one record per snapshot, numbered 0, 1, 2, ... in order, each with
\* the prior of its own snapshot.
C26_HistoryOneSnapshotPerIteration ==
    /\ Constructed => History = <<>>
    /\ (TrainCalled /\ outcome.status = "raised")
          => History = SessionBefore.core_model_settings_history
    /\ TrainSucceeded =>
          /\ Len(History) >= 2
          /\ Len(History) <= MaxIterations + 1
          /\ History[1] = SessionBefore.core_model_settings
          /\ session.core_model_settings = History[Len(History)]
    /\ (session.exists /\ PriorsPositive) =>
          \A report \in {lambda_history_records(session)} :
             /\ report.status = "ok"
             /\ Len(report.records) = Len(History)
             /\ \A k \in DOMAIN History :
                   /\ report.records[k].iteration = k - 1
                   /\ report.records[k].probability_two_random_records_match
                         = PriorOf(History[k])

\* a run of at least two iterations in which the prior moved at every step
C26_Witness ==
    /\ TrainSucceeded
    /\ Len(History) >= 3
    /\ PriorsPositive
    /\ \A j, k \in DOMAIN History :
          j # k => PriorOf(History[j]) # PriorOf(History[k])
    /\ lambda_history_records(session).records[Len(History)].iteration
          = Len(History) - 1

-----------------------------------------------------------------------------
(* Properties of the u values of estimate_u_values *)

\* the sampled pairs that show the level with the given comparison vector
\* value for the comparison on the given column
PairsAtLevel(concat, name, value) ==
    {b \in ret.blocked : Gamma(name, concat[b.l], concat[b.r]) = value}

\* how often a table is the output of an enqueued query
TimesEnqueued(table) ==
    Len(SelectSeq(ret.enqueued, LAMBDA q : q.table = table))

\* C27: estimate_u_values gives every sampled pair the match probability 0,
\* runs neither an expectation step nor a loop (the pairs are blocked,
\* compared, scored and counted once each), and the u value it records for
\* a level that the sample shows is the share of the sampled pairs at that
\* level among the pairs with a non-null level of the comparison.
C27_UIsShareOfSampledPairs ==
    EstimateCalled =>
        /\ ret.match_probabilities \subseteq {0}
        /\ \A q \in SeqToSet(ret.enqueued) :
              q.table \in {"__splink__df_concat_sampled_row_pairs",
                           "__splink__df_blocked",
                           "__splink__df_comparison_vectors",
                           "__splink__df_predict", "__splink__m_u_counts"}
        /\ TimesEnqueued("__splink__df_predict") = 1
        /\ TimesEnqueued("__splink__m_u_counts") = 1
        /\ \A concat \in {compute_df_concat(linker)} :
              \A i \in DOMAIN settings.comparisons :
                 LET cc == settings.comparisons[i]
                     name == cc.output_column_name
                     observed == Cardinality(ret.blocked)
                                   - Cardinality(PairsAtLevel(concat, name, -1))
                 IN  \A j \in DOMAIN cc.comparison_levels :
                        LET cl == cc.comparison_levels[j]
                            at_level ==
                                Cardinality(PairsAtLevel(
                                    concat, name, cl.comparison_vector_value))
                            u == cl.trained_u_probabilities[
                                     Len(cl.trained_u_probabilities)].probability
                        IN  (~cl.is_null_level /\ at_level > 0) =>
                               /\ u # LEVEL_NOT_OBSERVED
                               /\ 2 * Abs(u * observed - Scale * at_level)
                                     <= observed

\* three sampled pairs, of which one agrees on a column and two do not
C27_Witness ==
    /\ EstimateCalled
    /\ Cardinality(ret.blocked) = 3
    /\ \E i \in DOMAIN settings.comparisons :
          LET cc == settings.comparisons[i]
              concat == compute_df_concat(linker)
          IN  /\ Cardinality(PairsAtLevel(concat, cc.output_column_name, 1)) = 1
              /\ Cardinality(PairsAtLevel(concat, cc.output_column_name, 0)) = 2
              /\ \E j \in DOMAIN cc.comparison_levels :
                    LET cl == cc.comparison_levels[j]
                    IN  /\ cl.comparison_vector_value = 1
                        /\ cl.trained_u_probabilities[
                               Len(cl.trained_u_probabilities)].probability
                             = RoundRatio(1, 3, Scale)

-----------------------------------------------------------------------------
(* Properties of the linker that estimate_u_values works on *)

\* C28: estimate_u_values works on its own deep copy of the linker: every
\* query it builds (blocking, comparison vectors, predict, parameter
\* counts) is enqueued on the copy, the flags and settings of the sampling
\* mode are set on the copy, and the caller's linker has no query enqueued
\* on it, no setting changed and no flag set; the only write to the
\* caller's model is the merge of the u values.
C28_EstimateWorksOnItsCopy ==
    EstimateCalled =>
        /\ \A q \in SeqToSet(ret.enqueued) : q.on = "training_linker"
        /\ \A table \in {"__splink__df_blocked",
                           "__splink__df_comparison_vectors",
                           "__splink__df_predict", "__splink__m_u_counts"} :
              TimesEnqueued(table) = 1
        /\ ret.training_linker.training_mode
        /\ ~ret.training_linker.retain_matching_columns
        /\ linker = call.linker_before
        /\ WithoutTrainedValues(settings)
              = WithoutTrainedValues(call.settings_before)

-----------------------------------------------------------------------------
(* Properties of the canonical model across sessions *)

InitialPrior == InitialSettings.probability_two_random_records_match

\* C29: no session changes the prior of the canonical model: after any
\* sequence of constructions and of successful or failed _train calls the
\* canonical prior has its initial value, the adjusted prior is held by the
\* session's copy, and a session constructed later derives its prior from
\* the same canonical prior as the first.
C29_CanonicalPriorNeverChanged ==
    /\ PriorOf(settings) = InitialPrior
    /\ Constructed =>
          PriorOf(session.core_model_settings)
            = blocking_adjusted_probability_two_random_records_match(
                  InitialSettings,
                  session.comparison_levels_to_reverse_blocking_rule)

\* a second session is constructed after the first was trained and had
\* moved its own prior; its prior is adjusted from the initial one
C29_Witness ==
    /\ Constructed
    /\ SessionBefore.exists
    /\ SessionBefore.core_model_settings_history # <<>>
    /\ PriorOf(SessionBefore.core_model_settings) # InitialPrior
    /\ PriorOf(session.core_model_settings) # InitialPrior
    /\ PriorOf(session.core_model_settings)
          # PriorOf(SessionBefore.core_model_settings)
    /\ PriorOf(settings) = InitialPrior

\* C30: the fold-back of a session writes only to the comparisons that
\* were active in it: no level of a deactivated comparison and no null
\* level receives a trained m or u value, and the comparisons and levels of
\* the canonical model are the same after the fold-back as before, in the
\* same order.
C30_FoldBackWritesActiveLevelsOnly ==
    TrainSucceeded =>
        \A before \in {outcome.settings_before} :
            /\ OutputColumnNames(settings.comparisons)
                  = OutputColumnNames(before.comparisons)
            /\ WithoutTrainedValues(settings) = WithoutTrainedValues(before)
            /\ \A i \in DOMAIN settings.comparisons :
                  \A j \in DOMAIN settings.comparisons[i].comparison_levels :
                     LET cl == settings.comparisons[i].comparison_levels[j]
                         active ==
                             settings.comparisons[i].output_column_name
                               \in SeqToSet(
                                     SessionBefore.comparisons_that_can_be_estimated)
                     IN  (cl.is_null_level \/ ~active) =>
                            cl = before.comparisons[i].comparison_levels[j]

\* a session that deactivated one comparison and trained the other: the
\* canonical model changed, the deactivated comparison did not
C30_Witness ==
    /\ TrainSucceeded
    /\ SessionBefore.comparisons_that_cannot_be_estimated # <<>>
    /\ SessionBefore.comparisons_that_can_be_estimated # <<>>
    /\ settings # outcome.settings_before
    /\ \E i \in DOMAIN settings.comparisons :
          /\ settings.comparisons[i].output_column_name
                \in SeqToSet(SessionBefore.comparisons_that_cannot_be_estimated)
          /\ settings.comparisons[i] = outcome.settings_before.comparisons[i]

====
